---- MODULE Spec2Model ----
\* A model of the mirroring engine of morgan (src/morgan/__init__.py):
\* Mirrorer.mirror / Mirrorer._mirror / Mirrorer._filter_files /
\* Mirrorer._process_file / Mirrorer._download_file / Mirrorer._hash_file and
\* the driver mirror(args), run against a small fixed catalog whose network
\* behaviour (catalog responses, fetches) is chosen nondeterministically.
EXTENDS Naturals, Sequences, FiniteSets, TLC

VARIABLES
    run,            \* number of the current mirror(args) process on the index path
    config,         \* m.config["requirements"], flattened to requirement strings
    reqIdx,         \* position of mirror(args) in its loop over the requirements
    pc,             \* where the run is: "top", "files", "wave", "done", "fatal"
    processed,      \* Mirrorer._processed_pkgs (its keys)
    cur,            \* the _mirror() invocation in progress (frame of its file loop)
    deps,           \* mirror(): the wave being iterated (insertion-ordered dict)
    depIdx,         \* mirror(): position of `for dep in deps`
    next_deps,      \* mirror(): the wave under construction
    disk,           \* index_path: bytes stored at each target file
    sidecar,        \* index_path: the digest recorded by each <file>.hash
    io,             \* history: the I/O the last step performed
    status,         \* history: the outcome of the last resolution of each requirement string
    attempts,       \* history: <<requirement string, filename>> pairs handed to _process_file
    discovered,     \* history: requirement strings returned by dependency extraction
    submitted,      \* history: requirement strings handed to _mirror
    listed,         \* history: requirement strings whose catalog query got a valid listing
    envs,           \* Mirrorer.envs: the target environments (marker name -> value)
    call            \* the last application of a function of the mirrorer: its
                    \* name, its arguments and what it returned

vars == <<run, config, reqIdx, pc, processed, cur, deps, depIdx, next_deps,
          disk, sidecar, io, status, attempts, discovered, submitted, listed,
          envs, call>>

-----------------------------------------------------------------------------
\* Bounds

\* number of successive mirror(args) runs on the same index path
MaxRuns == 2

-----------------------------------------------------------------------------
\* Requirements

PREFERRED_HASH_ALG == "sha256"

RawNames == {"a", "b", "c", "A"}
Specifiers == {"", "<2", ">=2"}

\* packaging.requirements.Requirement, reduced to name and specifier set
Requirement == [name : RawNames, specifier : Specifiers]

\* packaging.utils.canonicalize_name on the names of the catalog
canonicalize_name(n) ==
    CASE n = "A" -> "a"
      [] OTHER -> n

\* Requirement.__str__: the serialized form `<name><specifier>`
ReqStr(r) == r.name \o r.specifier

\* packaging.requirements.Requirement(req_string): the requirement a string parses to
RequirementOf(s) == CHOOSE r \in Requirement : ReqStr(r) = s

\* parse_requirement(req_string): parse, then canonicalize the name
parse_requirement(s) ==
    LET req == RequirementOf(s)
    IN  [req EXCEPT !.name = canonicalize_name(req.name)]

\* SpecifierSet.contains(version), for versions 1, 2, 3, ...
SpecifierContains(spec, v) ==
    CASE spec = ""       -> TRUE
      [] spec = "<2"     -> v < 2
      [] spec = ">=2"    -> v >= 2
      [] spec = ">=2,<4" -> v >= 2 /\ v < 4

\* every serialized requirement string the engine can meet
ReqStrs == {ReqStr(r) : r \in {q \in Requirement : canonicalize_name(q.name) = q.name}}

-----------------------------------------------------------------------------
\* Target environments (Mirrorer.__init__)

\* one [env.<name>] section of morgan.ini, as __init__ stores it (extra = "")
Env(python_version, sys_platform, platform_machine) ==
    [python_version |-> python_version, sys_platform |-> sys_platform,
     platform_machine |-> platform_machine, extra |-> ""]

\* the environments of the morgan.ini the engine runs with
Envs == << Env("3.8", "linux", "x86_64"), Env("3.10", "linux", "x86_64") >>

\* self._supported_pyversions
supported_pyversions == {envs[i].python_version : i \in 1..Len(envs)}

\* self._supported_platforms: one pattern .*<sys_platform>.*<platform_machine> per environment
supported_platforms ==
    {[sys |-> envs[i].sys_platform, machine |-> envs[i].platform_machine] : i \in 1..Len(envs)}

\* the operating-system and machine parts of the platform tags of the catalog
PlatformParts(platform) ==
    CASE platform = "manylinux_2_28_x86_64" -> [sys |-> "linux", machine |-> "x86_64"]
      [] platform = "win32"                 -> [sys |-> "win",   machine |-> "32"]
      [] platform = "win_amd64"             -> [sys |-> "win",   machine |-> "amd64"]
      [] OTHER                              -> [sys |-> "",      machine |-> ""]

\* platformre.fullmatch(tag.platform)
PlatformFullmatch(platformre, platform) ==
    /\ PlatformParts(platform).sys = platformre.sys
    /\ PlatformParts(platform).machine = platformre.machine

\* the characters of the interpreter tags met in wheel filenames
Chars(inp) ==
    CASE inp = "py3"   -> << "p", "y", "3" >>
      [] inp = "py"    -> << "p", "y" >>
      [] inp = "cp3"   -> << "c", "p", "3" >>
      [] inp = "cp27"  -> << "c", "p", "2", "7" >>
      [] inp = "cp38"  -> << "c", "p", "3", "8" >>
      [] inp = "cp39"  -> << "c", "p", "3", "9" >>
      [] inp = "cp310" -> << "c", "p", "3", "1", "0" >>
      [] inp = "cp311" -> << "c", "p", "3", "1", "1" >>
      [] inp = "cp3_9" -> << "c", "p", "3", "_", "9" >>
      [] inp = "pp38"  -> << "p", "p", "3", "8" >>
      [] inp = "something_strange" ->
             << "s", "o", "m", "e", "t", "h", "i", "n", "g", "_",
                "s", "t", "r", "a", "n", "g", "e" >>

Digits == {"0", "1", "2", "3", "4", "5", "6", "7", "8", "9"}

RECURSIVE Join(_)
Join(cs) == IF cs = << >> THEN "" ELSE Head(cs) \o Join(Tail(cs))

\* the length of the match of ([^\d]+) at the start of cs
RECURSIVE NonDigitPrefix(_)
NonDigitPrefix(cs) ==
    IF cs = << >> \/ Head(cs) \in Digits THEN 0 ELSE 1 + NonDigitPrefix(Tail(cs))

\* (mutant) the minor version is dropped: only <major> is returned
ParseVersionMajorOnly(inp, name, major, minor) ==
    IF \E i \in 1..Len(minor) : minor[i] \notin Digits
    THEN [name |-> inp, version |-> ""]
    ELSE [name |-> Join(name), version |-> major]

\* parse_interpreter, the groups being matched: (intr, version) with version
\* <major> or <major>.<minor>; (inp, None) when (\d+)?$ does not match
ParseVersion(inp, name, major, minor) ==
    IF \E i \in 1..Len(minor) : minor[i] \notin Digits
    THEN [name |-> inp, version |-> ""]
    ELSE [name |-> Join(name),
          version |-> IF minor = << >> THEN major ELSE major \o "." \o Join(minor)]

\* parse_interpreter after ([^\d]+) matched `name`: (\d) and (?:[._])? on `rest`
ParseDigits(inp, name, rest) ==
    IF name = << >> \/ rest = << >>
    THEN [name |-> inp, version |-> ""]
    ELSE ParseVersion(inp, name, Head(rest),
                      IF Tail(rest) # << >> /\ Head(Tail(rest)) \in {".", "_"}
                      THEN Tail(Tail(rest)) ELSE Tail(rest))

\* parse_interpreter on the characters of inp, ([^\d]+) matching the first n
ParseChars(inp, cs, n) == ParseDigits(inp, SubSeq(cs, 1, n), SubSeq(cs, n + 1, Len(cs)))

\* parse_interpreter(inp): re.fullmatch(r"^([^\d]+)(?:(\d)(?:[._])?(\d+)?)$", inp);
\* version "" stands for None
parse_interpreter(inp) == ParseChars(inp, Chars(inp), NonDigitPrefix(Chars(inp)))

\* SpecifierSet(requires_python).contains(python_version); a string that is no
\* specifier set raises, which _matches_environments turns into a rejection
RequiresPythonValid(rp) == rp \in {">=3.9", ">=3.8", "==3"}

RequiresPythonContains(rp, pyver) ==
    CASE rp = ">=3.9" -> pyver \in {"3.9", "3.10"}
      [] rp = ">=3.8" -> pyver \in {"3.8", "3.9", "3.10"}
      [] rp = "==3"   -> FALSE
      [] OTHER        -> FALSE

\* one tag of a wheel matches the environments (the body of the loop over the tags)
TagMatches(tag) ==
    LET intrp == parse_interpreter(tag.interpreter)
    IN  /\ intrp.name \in {"py", "cp"}
        /\ ~ (/\ intrp.version # ""
              /\ intrp.version # "3"
              /\ intrp.version \notin supported_pyversions)
        /\ \/ tag.platform = "any"
           \/ \E platformre \in supported_platforms :
                  PlatformFullmatch(platformre, tag.platform)

\* (mutant) requires-python has to hold for one of the environments only
matches_environments_AnyPython(fileinfo) ==
    LET rp0 == fileinfo.requires_python
        rp  == IF rp0 = "3" THEN "==3" ELSE rp0
        pythonOk ==
            \/ rp0 = ""
            \/ /\ RequiresPythonValid(rp)
               /\ \E supported_python \in supported_pyversions :
                      RequiresPythonContains(rp, supported_python)
    IN  /\ pythonOk
        /\ \/ Len(fileinfo.tags) = 0
           \/ \E i \in 1..Len(fileinfo.tags) : TagMatches(fileinfo.tags[i])

\* Mirrorer._matches_environments
matches_environments(fileinfo) ==
    LET rp0 == fileinfo.requires_python
        rp  == IF rp0 = "3" THEN "==3" ELSE rp0
        pythonOk ==
            \/ rp0 = ""
            \/ /\ RequiresPythonValid(rp)
               /\ \A supported_python \in supported_pyversions :
                      RequiresPythonContains(rp, supported_python)
    IN  /\ pythonOk
        /\ \/ Len(fileinfo.tags) = 0
           \/ \E i \in 1..Len(fileinfo.tags) : TagMatches(fileinfo.tags[i])

-----------------------------------------------------------------------------
\* The remote catalog: the `files` list served for each project, in the order
\* served. `ver` is the version the filename parses to (0: the filename holds no
\* valid version, so parsing raises and the file gets no "version" key); `deps`
\* is what is declared by the metadata inside the archive.

File(fn, ext, ver, tags, yanked, rp, hashes, dps, arch) ==
    [filename |-> fn, ext |-> ext, ver |-> ver, tags |-> tags, yanked |-> yanked,
     requires_python |-> rp, hashes |-> hashes, deps |-> dps, archive |-> arch]

Tag(interpreter, platform) == [interpreter |-> interpreter, platform |-> platform]

CatalogFiles(name) ==
    CASE name = "a" ->
           << File("a-1.tar.gz", "tar.gz", 1, <<>>, FALSE, "3", {"sha256"}, {"b"}, "ok"),
              File("a-2.tar.gz", "tar.gz", 2, <<>>, FALSE, "", {"sha256"}, {"b<2", "c>=2"}, "ok"),
              File("a-2-py3-none-any.whl", "whl", 2, <<Tag("py3", "any")>>, FALSE, ">=3.8",
                   {"sha256"}, {"c"}, "ok"),
              File("a-3.tar.gz", "tar.gz", 3, <<>>, TRUE, "", {"sha256"}, {}, "ok"),
              File("a-3.exe", "exe", 3, <<>>, FALSE, "", {"sha256"}, {}, "ok") >>
      [] name = "b" ->
           << File("b-1.tar.gz", "tar.gz", 1, <<>>, FALSE, "", {"sha256"}, {"A"}, "ok"),
              File("b-2.tar.gz", "tar.gz", 2, <<>>, FALSE, "", {"sha256"}, {"c"}, "bad"),
              File("b-2-cp310-cp310-manylinux_2_28_x86_64.whl", "whl", 2,
                   <<Tag("cp310", "manylinux_2_28_x86_64")>>, FALSE, "", {"md5"}, {"a"}, "ok"),
              File("b-latest.tar.gz", "tar.gz", 0, <<>>, FALSE, "", {"sha256"}, {}, "ok") >>
      [] name = "c" ->
           << File("c-1.zip", "zip", 1, <<>>, FALSE, "", {"md5"}, {"a"}, "ok"),
              File("c-1.tar.gz", "tar.gz", 1, <<>>, FALSE, "", {"sha256"}, {"b<2", "b>=2"}, "ok"),
              File("c-2-cp27-cp27m-win32.whl", "whl", 2, <<Tag("cp27", "win32")>>, FALSE, "",
                   {"sha256"}, {}, "ok"),
              File("c-3.tar.gz", "tar.gz", 3, <<>>, FALSE, ">=3.9", {"sha256"}, {}, "ok") >>
      [] OTHER -> << >>

Names == {"a", "b", "c"}

FileNames == UNION {{CatalogFiles(n)[i].filename : i \in 1..Len(CatalogFiles(n))} : n \in Names}

-----------------------------------------------------------------------------
\* File selection

\* re.search(r"\.(whl|zip|tar.gz)$", filename)
SupportedExtension(file) == file.ext \in {"whl", "zip", "tar.gz"}

\* "version" in file and not file.get("yanked", False)
HasVersionNotYanked(file) == file.ver # 0 /\ ~ file.yanked

\* (mutant) a sort that is not stable: a file goes before the files of its version
RECURSIVE InsertByVersionUnstable(_, _)
InsertByVersionUnstable(sorted, file) ==
    IF sorted = << >> THEN << file >>
    ELSE IF Head(sorted).ver > file.ver
         THEN << Head(sorted) >> \o InsertByVersionUnstable(Tail(sorted), file)
         ELSE << file >> \o sorted

\* list.sort(key=version, reverse=True): stable, descending
RECURSIVE InsertByVersion(_, _)
InsertByVersion(sorted, file) ==
    IF sorted = << >> THEN << file >>
    ELSE IF Head(sorted).ver >= file.ver
         THEN << Head(sorted) >> \o InsertByVersion(Tail(sorted), file)
         ELSE << file >> \o sorted

\* (mutant) the files are left in the order of the listing
SortByVersionForgotten(files) == files

RECURSIVE SortByVersionDesc(_)
SortByVersionDesc(files) ==
    IF files = << >> THEN << >>
    ELSE InsertByVersion(SortByVersionDesc(SubSeq(files, 1, Len(files) - 1)), files[Len(files)])

\* (mutant) the highest version is picked among the files that satisfy the
\* specifier, before the environments are looked at
filter_files_LatestFirst(requirement, files) ==
    LET InSpecifier(file) == SpecifierContains(requirement.specifier, file.ver)
        f1 == SelectSeq(files, SupportedExtension)
        f2 == SortByVersionDesc(SelectSeq(f1, HasVersionNotYanked))
        f3 == SelectSeq(f2, InSpecifier)
        IsLatest(file) == file.ver = f3[1].ver
        f4 == SelectSeq(SelectSeq(f3, IsLatest), matches_environments)
    IN  IF Len(f3) = 0 THEN [none |-> TRUE, files |-> << >>]
        ELSE IF Len(f4) = 0 THEN [none |-> TRUE, files |-> << >>]
        ELSE [none |-> FALSE, files |-> f4]

\* Mirrorer._filter_files: [none |-> TRUE] stands for the return value None
filter_files(requirement, files) ==
    LET InSpecifier(file) == SpecifierContains(requirement.specifier, file.ver)
        f1 == SelectSeq(files, SupportedExtension)
        f2 == SortByVersionDesc(SelectSeq(f1, HasVersionNotYanked))
        f3 == SelectSeq(f2, InSpecifier)
        f4 == SelectSeq(f3, matches_environments)
        IsLatest(file) == file.ver = f4[1].ver
    IN  IF Len(f3) = 0 THEN [none |-> TRUE, files |-> << >>]
        ELSE IF Len(f4) = 0 THEN [none |-> TRUE, files |-> << >>]
        ELSE [none |-> FALSE, files |-> SelectSeq(f4, IsLatest)]

-----------------------------------------------------------------------------
\* Insertion-ordered dictionaries keyed by package name (depdict, deps, next_deps):
\* a sequence of entries with distinct keys

Entry(key, requirement, required_by) ==
    [key |-> key, requirement |-> requirement, required_by |-> required_by]

Keys(d) == {d[i].key : i \in 1..Len(d)}

\* the serialized requirements held by a dictionary
QueuedStrs(d) == {ReqStr(d[i].requirement) : i \in 1..Len(d)}

\* d[key] = value: an existing key keeps its position and takes the new value
DictSet(d, e) ==
    IF e.key \in Keys(d)
    THEN [i \in 1..Len(d) |-> IF d[i].key = e.key THEN e ELSE d[i]]
    ELSE Append(d, e)

\* d.update(other)
RECURSIVE DictUpdate(_, _)
DictUpdate(d, other) ==
    IF other = << >> THEN d
    ELSE DictUpdate(DictSet(d, Head(other)), Tail(other))

\* the orders in which a set can be iterated
Orders(S) == {o \in [1..Cardinality(S) -> S] : {o[i] : i \in 1..Cardinality(S)} = S}

-----------------------------------------------------------------------------
\* Download and verification

Absent == "<absent>"
GoodBytes == "GOOD"
CorruptBytes == "CORRUPT"
EmptyBytes == ""
Contents == {Absent, GoodBytes, CorruptBytes, EmptyBytes}

\* hashlib.new(hashalg).update(contents).hexdigest()
hexdigest(hashalg, contents) == hashalg \o ":" \o contents

NoSidecar == "<none>"
Sidecars == {NoSidecar} \cup {alg \o "=" \o hexdigest(alg, c) :
                               alg \in {"sha256"}, c \in Contents \ {Absent}}

\* fileinfo["hashes"][hashalg]: the digest the index advertises
exphash(fileinfo, hashalg) == hexdigest(hashalg, GoodBytes)

\* what a fetch of fileinfo["url"] can do
FetchOutcomes == {"ok", "corrupt", "urlopen_error", "read_error"}

\* Mirrorer._hash_file: the digest of the stored bytes, written to <file>.hash
hash_file(contents, hashalg) ==
    [digest |-> hexdigest(hashalg, contents),
     sidecar |-> hashalg \o "=" \o hexdigest(hashalg, contents)]

\* (mutant) the existing file is never trusted: every call fetches
SkipDownloadNever(fileinfo, contents, hashalg) == FALSE

\* (mutant) a target that exists is accepted as it is
SkipDownloadIfExists(fileinfo, contents, hashalg) == contents # Absent

\* the test `truehash == exphash` that lets _download_file skip the fetch
SkipDownload(fileinfo, contents, hashalg) ==
    /\ contents # Absent
    /\ hash_file(contents, hashalg).digest = exphash(fileinfo, hashalg)

\* Mirrorer._download_file on a target holding `contents` with sidecar `side`
download_file(fileinfo, contents, side, hashalg, outcome) ==
    LET side1 == IF contents # Absent THEN hash_file(contents, hashalg).sidecar ELSE side
    IN  IF SkipDownload(fileinfo, contents, hashalg)
        THEN [raised |-> FALSE, fetched |-> FALSE, contents |-> contents, sidecar |-> side1]
        ELSE CASE outcome = "urlopen_error" ->
                    [raised |-> TRUE, fetched |-> TRUE, contents |-> contents, sidecar |-> side1]
               [] outcome = "read_error" ->
                    [raised |-> TRUE, fetched |-> TRUE, contents |-> EmptyBytes, sidecar |-> side1]
               [] outcome = "ok" ->
                    [raised |-> hash_file(GoodBytes, hashalg).digest # exphash(fileinfo, hashalg),
                     fetched |-> TRUE, contents |-> GoodBytes,
                     sidecar |-> hash_file(GoodBytes, hashalg).sidecar]
               [] outcome = "corrupt" ->
                    [raised |-> hash_file(CorruptBytes, hashalg).digest # exphash(fileinfo, hashalg),
                     fetched |-> TRUE, contents |-> CorruptBytes,
                     sidecar |-> hash_file(CorruptBytes, hashalg).sidecar]

\* MetadataParser.dependencies for the metadata held by an archive of the catalog
dependencies(fileinfo) == {RequirementOf(s) : s \in fileinfo.deps}

\* the loop of _process_file that builds its depdict, over the dependencies in
\* the order `order` in which the set is iterated
RECURSIVE BuildDepdict(_, _)
BuildDepdict(order, requirement) ==
    IF order = << >> THEN << >>
    ELSE LET init == SubSeq(order, 1, Len(order) - 1)
             dep0 == order[Len(order)]
             dep  == [dep0 EXCEPT !.name = canonicalize_name(dep0.name)]
         IN  DictSet(BuildDepdict(init, requirement), Entry(dep.name, dep, requirement))

\* Mirrorer._process_file
process_file(requirement, fileinfo, contents, side, outcome, order) ==
    IF PREFERRED_HASH_ALG \notin fileinfo.hashes
    THEN \* fileinfo["hashes"].keys()[0] raises TypeError
         [raised |-> TRUE, fetched |-> FALSE, contents |-> contents, sidecar |-> side,
          depdict |-> << >>, found |-> {}]
    ELSE LET dl == download_file(fileinfo, contents, side, PREFERRED_HASH_ALG, outcome)
         IN  IF dl.raised \/ fileinfo.archive # "ok"
             THEN [raised |-> TRUE, fetched |-> dl.fetched, contents |-> dl.contents,
                   sidecar |-> dl.sidecar, depdict |-> << >>, found |-> {}]
             ELSE [raised |-> FALSE, fetched |-> dl.fetched, contents |-> dl.contents,
                   sidecar |-> dl.sidecar,
                   depdict |-> BuildDepdict(order, requirement),
                   found |-> {ReqStr([order[i] EXCEPT !.name = canonicalize_name(order[i].name)]) :
                                 i \in 1..Len(order)}]

-----------------------------------------------------------------------------
\* The engine

\* the value None of a `required_by` / `requirement` slot
NoRequirement == [name |-> "", specifier |-> ""]

NoCall == [requirement |-> NoRequirement, required_by |-> NoRequirement, files |-> << >>,
           idx |-> 0, depdict |-> << >>, found |-> {}, failed |-> {}]

\* the requirement lists of morgan.ini this model runs
Configs == { << "A", "c>=2" >>, << "b<2", "a" >>, << "c", "c<2" >> }

\* no catalog query was made
NoResponse == [status |-> 0, api_version |-> "", files |-> ""]

\* the I/O of a step that does none
NoIO == [step |-> "", response |-> NoResponse, fetch |-> FALSE]

\* catalog responses: an HTTP error, or a JSON document
Responses ==
    {[status |-> 404, api_version |-> "", files |-> "list"]}
    \cup [status : {200}, api_version : {"", "1.0", "2.0"}, files : {"list", "missing"}]

\* a response that PEP 691 calls well-formed: 200, API major version 1, a list of files
ValidListing(response) ==
    /\ response.status = 200
    /\ response.api_version \in {"", "1.0"}
    /\ response.files = "list"

\* (mutant) the major version is not looked at
ApiMajorLenient(v_str) == 1

\* int(v_str.split(".")[0]) after the default "1.0" for an empty string
ApiMajor(v_str) ==
    CASE v_str = ""    -> 1
      [] v_str = "1.0" -> 1
      [] v_str = "2.0" -> 2

\* (mutant) the processed set is never consulted
AlreadyProcessedNever(req_str, processed_pkgs) == FALSE

\* `req_str in self._processed_pkgs`
AlreadyProcessed(req_str, processed_pkgs) == req_str \in processed_pkgs

\* (mutant) an empty selection raises for a dependency as for a direct request
mirror_begin_NoMatchRaises(requirement, required_by, response, processed_pkgs) ==
    LET selected == filter_files(requirement, CatalogFiles(requirement.name))
    IN  IF AlreadyProcessed(ReqStr(requirement), processed_pkgs)
        THEN [kind |-> "skip", files |-> << >>]
        ELSE IF response.status # 200
        THEN [kind |-> "http_error", files |-> << >>]
        ELSE IF ApiMajor(response.api_version) # 1
        THEN [kind |-> "exception", files |-> << >>]
        ELSE IF response.files # "list"
        THEN [kind |-> "exception", files |-> << >>]
        ELSE IF selected.none
        THEN [kind |-> "exception", files |-> << >>]
        ELSE [kind |-> "files", files |-> selected.files]

\* Mirrorer._mirror up to its file loop: how the call goes on
\*   "skip"       return None, the requirement is already processed
\*   "http_error" urlopen raised urllib.error.HTTPError
\*   "exception"  raise Exception(...)
\*   "null"       return None, no file matches (dependency)
\*   "files"      the file loop is entered with `files`
mirror_begin(requirement, required_by, response, processed_pkgs) ==
    LET selected == filter_files(requirement, CatalogFiles(requirement.name))
    IN  IF AlreadyProcessed(ReqStr(requirement), processed_pkgs)
        THEN [kind |-> "skip", files |-> << >>]
        ELSE IF response.status # 200
        THEN [kind |-> "http_error", files |-> << >>]
        ELSE IF ApiMajor(response.api_version) # 1
        THEN [kind |-> "exception", files |-> << >>]
        ELSE IF response.files # "list"
        THEN [kind |-> "exception", files |-> << >>]
        ELSE IF selected.none
        THEN IF required_by = NoRequirement
             THEN [kind |-> "exception", files |-> << >>]
             ELSE [kind |-> "null", files |-> << >>]
        ELSE IF Len(selected.files) = 0
        THEN [kind |-> "exception", files |-> << >>]
        ELSE [kind |-> "files", files |-> selected.files]

\* the history kept for a _mirror call that went on as `kind`
Began(req_str, kind, response) ==
    /\ submitted' = submitted \cup {req_str}
    /\ listed' = IF kind # "skip" /\ ValidListing(response) THEN listed \cup {req_str} ELSE listed
    /\ io' = [step |-> kind, response |-> IF kind = "skip" THEN NoResponse ELSE response,
              fetch |-> FALSE]
    /\ status' = CASE kind = "skip"  -> status
                   [] kind = "files" -> [status EXCEPT ![req_str] = "inflight"]
                   [] kind = "null"  -> [status EXCEPT ![req_str] = "null"]
                   [] OTHER          -> [status EXCEPT ![req_str] = "error"]

EnterFiles(requirement, required_by, files) ==
    /\ pc' = "files"
    /\ cur' = [requirement |-> requirement, required_by |-> required_by, files |-> files,
               idx |-> 1, depdict |-> << >>, found |-> {}, failed |-> {}]

\* mirror(args) calls m.mirror(requirement_string), which calls _mirror(requirement)
\* and catches urllib.error.HTTPError around that call only
MirrorTop ==
    /\ UNCHANGED <<envs, call>>
    /\ pc = "top"
    /\ reqIdx <= Len(config)
    /\ \E response \in Responses :
         LET requirement == parse_requirement(config[reqIdx])
             begin == mirror_begin(requirement, NoRequirement, response, processed)
         IN  /\ Began(ReqStr(requirement), begin.kind, response)
             /\ CASE begin.kind \in {"skip", "null", "http_error"} ->
                       \* deps is None: mirror() returns
                       /\ reqIdx' = reqIdx + 1
                       /\ UNCHANGED <<pc, cur>>
                  [] begin.kind = "files" ->
                       /\ EnterFiles(requirement, NoRequirement, begin.files)
                       /\ UNCHANGED reqIdx
                  [] OTHER ->
                       /\ pc' = "fatal"
                       /\ UNCHANGED <<reqIdx, cur>>
    /\ UNCHANGED <<run, config, processed, deps, depIdx, next_deps, disk, sidecar,
                   attempts, discovered>>

\* mirror(): `more_deps = self._mirror(deps[dep]["requirement"], required_by=...)`
MirrorDep ==
    /\ UNCHANGED <<envs, call>>
    /\ pc = "wave"
    /\ depIdx <= Len(deps)
    /\ \E response \in Responses :
         LET requirement == deps[depIdx].requirement
             required_by == deps[depIdx].required_by
             begin == mirror_begin(requirement, required_by, response, processed)
         IN  /\ Began(ReqStr(requirement), begin.kind, response)
             /\ CASE begin.kind \in {"skip", "null"} ->
                       \* more_deps is None
                       /\ depIdx' = depIdx + 1
                       /\ UNCHANGED <<pc, cur>>
                  [] begin.kind = "files" ->
                       /\ EnterFiles(requirement, required_by, begin.files)
                       /\ UNCHANGED depIdx
                  [] OTHER ->
                       \* nothing in mirror() catches what this call raises
                       /\ pc' = "fatal"
                       /\ UNCHANGED <<depIdx, cur>>
    /\ UNCHANGED <<run, config, reqIdx, processed, deps, next_deps, disk, sidecar,
                   attempts, discovered>>

\* _mirror: one iteration of `for file in files`, its try/except included
ProcessFile ==
    /\ UNCHANGED <<envs, call>>
    /\ pc = "files"
    /\ cur.idx <= Len(cur.files)
    /\ LET file == cur.files[cur.idx]
           fn == file.filename
       IN  \E outcome \in FetchOutcomes, order \in Orders(dependencies(file)) :
             LET r == process_file(cur.requirement, file, disk[fn], sidecar[fn], outcome, order)
             IN  /\ disk' = [disk EXCEPT ![fn] = r.contents]
                 /\ sidecar' = [sidecar EXCEPT ![fn] = r.sidecar]
                 /\ io' = [step |-> "file", response |-> NoResponse, fetch |-> r.fetched]
                 /\ attempts' = attempts \cup {<<ReqStr(cur.requirement), fn>>}
                 /\ discovered' = discovered \cup r.found
                 /\ cur' = [cur EXCEPT
                              !.idx = @ + 1,
                              !.depdict = IF ~ r.raised /\ Len(r.depdict) > 0
                                          THEN DictUpdate(@, r.depdict) ELSE @,
                              !.found = @ \cup r.found,
                              !.failed = IF r.raised THEN @ \cup {fn} ELSE @]
    /\ UNCHANGED <<run, config, reqIdx, pc, processed, deps, depIdx, next_deps,
                   status, submitted, listed>>

\* _mirror after its file loop: `self._processed_pkgs[req_str] = True; return depdict`,
\* and what the caller in mirror() does with the returned dictionary
ReturnDepdict ==
    /\ UNCHANGED <<envs, call>>
    /\ processed' = processed \cup {ReqStr(cur.requirement)}
    /\ status' = [status EXCEPT ![ReqStr(cur.requirement)] = "done"]
    /\ IF cur.required_by = NoRequirement
       THEN \* deps = self._mirror(requirement); the while loop is entered
            /\ deps' = cur.depdict
            /\ next_deps' = << >>
            /\ depIdx' = 1
       ELSE \* if more_deps: next_deps.update(more_deps)
            /\ next_deps' = IF Len(cur.depdict) > 0
                            THEN DictUpdate(next_deps, cur.depdict) ELSE next_deps
            /\ depIdx' = depIdx + 1
            /\ UNCHANGED deps
    /\ pc' = "wave"
    /\ cur' = NoCall
    /\ io' = NoIO
    /\ UNCHANGED <<run, config, reqIdx, disk, sidecar, attempts, discovered, submitted, listed>>

\* (mutant) the except clause leaves the file loop instead of continuing it
MirrorReturnOnFailure ==
    /\ pc = "files"
    /\ cur.idx > Len(cur.files) \/ cur.failed # {}
    /\ ReturnDepdict

\* _mirror: the file loop is over
MirrorReturn ==
    /\ pc = "files"
    /\ cur.idx > Len(cur.files)
    /\ ReturnDepdict

\* (mutant) the wave is replaced as soon as a next one exists, drained or not
WaveEndEarly ==
    /\ UNCHANGED <<envs, call>>
    /\ pc = "wave"
    /\ depIdx > Len(deps) \/ Len(next_deps) > 0
    /\ deps' = next_deps
    /\ next_deps' = << >>
    /\ depIdx' = 1
    /\ IF Len(next_deps) > 0
       THEN UNCHANGED <<pc, reqIdx>>
       ELSE pc' = "top" /\ reqIdx' = reqIdx + 1
    /\ io' = NoIO
    /\ UNCHANGED <<run, config, processed, cur, disk, sidecar, status, attempts,
                   discovered, submitted, listed>>

\* mirror(): the end of `for dep in deps`: deps = next_deps.copy(), and the
\* test of `while len(deps) > 0`
WaveEnd ==
    /\ UNCHANGED <<envs, call>>
    /\ pc = "wave"
    /\ depIdx > Len(deps)
    /\ deps' = next_deps
    /\ next_deps' = << >>
    /\ depIdx' = 1
    /\ IF Len(next_deps) > 0
       THEN UNCHANGED <<pc, reqIdx>>
       ELSE pc' = "top" /\ reqIdx' = reqIdx + 1
    /\ io' = NoIO
    /\ UNCHANGED <<run, config, processed, cur, disk, sidecar, status, attempts,
                   discovered, submitted, listed>>

\* mirror(args): the requirements are exhausted, m.copy_server() ends the run
Finish ==
    /\ UNCHANGED <<envs, call>>
    /\ pc = "top"
    /\ reqIdx > Len(config)
    /\ pc' = "done"
    /\ io' = NoIO
    /\ UNCHANGED <<run, config, reqIdx, processed, cur, deps, depIdx, next_deps,
                   disk, sidecar, status, attempts, discovered, submitted, listed>>

\* mirror(args) is started again on the same index path: a new Mirrorer, the
\* files on disk are what the run before left
NewRun ==
    /\ UNCHANGED <<envs, call>>
    /\ pc \in {"done", "fatal"}
    /\ run < MaxRuns
    /\ run' = run + 1
    /\ pc' = "top"
    /\ reqIdx' = 1
    /\ processed' = {}
    /\ cur' = NoCall
    /\ deps' = << >>
    /\ next_deps' = << >>
    /\ depIdx' = 1
    /\ io' = NoIO
    /\ status' = [s \in ReqStrs |-> "unvisited"]
    /\ attempts' = {}
    /\ discovered' = {}
    /\ submitted' = {}
    /\ listed' = {}
    /\ UNCHANGED <<config, disk, sidecar>>

\* no function application is recorded
NoApplication == [op |-> ""]

Init ==
    /\ run = 1
    /\ config \in Configs
    /\ reqIdx = 1
    /\ pc = "top"
    /\ processed = {}
    /\ cur = NoCall
    /\ deps = << >>
    /\ depIdx = 1
    /\ next_deps = << >>
    /\ disk = [fn \in FileNames |-> Absent]
    /\ sidecar = [fn \in FileNames |-> NoSidecar]
    /\ io = NoIO
    /\ status = [s \in ReqStrs |-> "unvisited"]
    /\ attempts = {}
    /\ discovered = {}
    /\ submitted = {}
    /\ listed = {}
    /\ envs = Envs
    /\ call = NoApplication

\* one run of mirror(args)
Next ==
    \/ MirrorTop
    \/ MirrorDep
    \/ ProcessFile
    \/ MirrorReturn
    \/ WaveEnd
    \/ Finish

Spec == Init /\ [][Next]_vars

\* every step of a run is taken: the process is sequential and nothing in it blocks
FairSpec == Spec /\ WF_vars(Next)

\* successive runs of mirror(args) on the same index path
NextRerun ==
    \/ Next
    \/ NewRun

RerunSpec == Init /\ [][NextRerun]_vars

TypeOK ==
    /\ run \in 1..MaxRuns
    /\ pc \in {"top", "files", "wave", "done", "fatal"}
    /\ processed \subseteq ReqStrs
    /\ \A fn \in FileNames : disk[fn] \in Contents /\ sidecar[fn] \in Sidecars

-----------------------------------------------------------------------------
\* File selection on its own: Mirrorer._filter_files and
\* Mirrorer._matches_environments applied to listings of a project "pkg", for
\* several sets of target environments

\* the variables of the engine, which the applications below leave alone
engineVars == <<run, config, reqIdx, pc, processed, cur, deps, depIdx, next_deps,
                disk, sidecar, io, status, attempts, discovered, submitted, listed>>

\* a Mirrorer that was constructed and whose mirror() was not called
Constructed ==
    /\ run = 1
    /\ config = << >>
    /\ reqIdx = 1
    /\ pc = "top"
    /\ processed = {}
    /\ cur = NoCall
    /\ deps = << >>
    /\ depIdx = 1
    /\ next_deps = << >>
    /\ disk = [fn \in FileNames |-> Absent]
    /\ sidecar = [fn \in FileNames |-> NoSidecar]
    /\ io = NoIO
    /\ status = [s \in ReqStrs |-> "unvisited"]
    /\ attempts = {}
    /\ discovered = {}
    /\ submitted = {}
    /\ listed = {}

\* the [env.*] sections of the morgan.ini files selection is run with
EnvConfigs ==
    { Envs,
      << Env("3.10", "linux", "x86_64") >>,
      << Env("3.8", "linux", "x86_64"), Env("3.10", "win", "amd64") >> }

\* the number of files of a listing
MaxFiles == 4

\* the files a listing of "pkg" is made of
SampleFiles ==
    << File("pkg-4.tar.gz", "tar.gz", 4, << >>, FALSE, "", {"sha256"}, {}, "ok"),
       File("pkg-3.tar.gz", "tar.gz", 3, << >>, FALSE, "", {"sha256"}, {}, "ok"),
       File("pkg-3-py3-none-any.whl", "whl", 3, << Tag("py3", "any") >>, FALSE, "",
            {"sha256"}, {}, "ok"),
       File("pkg-3-cp38-cp38-win_amd64.whl", "whl", 3, << Tag("cp38", "win_amd64") >>, FALSE, "",
            {"sha256"}, {}, "ok"),
       File("pkg-2.tar.gz", "tar.gz", 2, << >>, FALSE, ">=3.9", {"sha256"}, {}, "ok"),
       File("pkg-2.zip", "zip", 2, << >>, FALSE, "", {"sha256"}, {}, "ok"),
       File("pkg-1.tar.gz", "tar.gz", 1, << >>, FALSE, "3", {"sha256"}, {}, "ok"),
       File("pkg-1.zip", "zip", 1, << >>, FALSE, "python3", {"sha256"}, {}, "ok"),
       File("pkg-1-cp27.cp310-none-manylinux_2_28_x86_64.whl", "whl", 1,
            << Tag("cp27", "manylinux_2_28_x86_64"), Tag("cp310", "manylinux_2_28_x86_64") >>,
            FALSE, ">=3.8", {"sha256"}, {}, "ok"),
       File("pkg-5.tar.gz", "tar.gz", 5, << >>, TRUE, "", {"sha256"}, {}, "ok"),
       File("pkg-5.exe", "exe", 5, << >>, FALSE, "", {"sha256"}, {}, "ok"),
       File("pkg-latest.tar.gz", "tar.gz", 0, << >>, FALSE, "", {"sha256"}, {}, "ok") >>

Reverse(seq) == [i \in 1..Len(seq) |-> seq[(Len(seq) + 1) - i]]

\* the listings: up to MaxFiles of the files, in the order above or in its reverse
Listings ==
    LET Sub(S) == SelectSeq(SampleFiles, LAMBDA f : f \in S)
        Sets == {S \in SUBSET {SampleFiles[i] : i \in 1..Len(SampleFiles)} :
                    Cardinality(S) <= MaxFiles}
    IN  {Sub(S) : S \in Sets} \cup {Reverse(Sub(S)) : S \in Sets}

SelectSpecifiers == Specifiers \cup {">=2,<4"}

\* "only the newest matching version" and "all versions satisfying the specifier"
Modes == {"latest", "all"}

\* FileSelector.select(requirement, rawFiles, environments, mode): the default
\* mode is Mirrorer._filter_files; the "all versions" mode is the same selection
\* without its last step, the narrowing to the highest version that remains
select(requirement, files, mode) ==
    LET InSpecifier(file) == SpecifierContains(requirement.specifier, file.ver)
        f1 == SelectSeq(files, SupportedExtension)
        f2 == SortByVersionDesc(SelectSeq(f1, HasVersionNotYanked))
        f3 == SelectSeq(f2, InSpecifier)
        f4 == SelectSeq(f3, matches_environments)
    IN  IF mode = "latest" THEN filter_files(requirement, files)
        ELSE IF Len(f4) = 0 THEN [none |-> TRUE, files |-> << >>]
        ELSE [none |-> FALSE, files |-> f4]

\* the applications of _filter_files that are about to be made
FilterFilesInputs ==
    [op : {"filter_files"},
     requirement : [name : {"pkg"}, specifier : SelectSpecifiers],
     files : Listings,
     mode : Modes,
     calls : {0},
     result : {[none |-> TRUE, files |-> << >>]}]

\* the applications of _matches_environments that are about to be made
MatchesEnvironmentsInputs ==
    [op : {"matches_environments"},
     fileinfo : {SampleFiles[i] : i \in 1..Len(SampleFiles)},
     calls : {0},
     result : {FALSE}]

\* mirrorer._filter_files(requirement, files) is called on a listing
FilterFiles ==
    /\ call.op = "filter_files"
    /\ call.calls = 0
    /\ call' = [call EXCEPT !.calls = 1,
                            !.result = select(call.requirement, call.files, call.mode)]
    /\ UNCHANGED envs
    /\ UNCHANGED engineVars

\* mirrorer._filter_files is called again on the list it just returned
FilterFilesAgain ==
    /\ call.op = "filter_files"
    /\ call.calls = 1
    /\ ~ call.result.none
    /\ call' = [call EXCEPT !.calls = 2,
                            !.files = call.result.files,
                            !.result = select(call.requirement, call.result.files, call.mode)]
    /\ UNCHANGED envs
    /\ UNCHANGED engineVars

\* mirrorer._matches_environments(fileinfo) is called on a file
MatchesEnvironments ==
    /\ call.op = "matches_environments"
    /\ call.calls = 0
    /\ call' = [call EXCEPT !.calls = 1, !.result = matches_environments(call.fileinfo)]
    /\ UNCHANGED envs
    /\ UNCHANGED engineVars

SelectInit ==
    /\ Constructed
    /\ envs \in EnvConfigs
    /\ call \in FilterFilesInputs \cup MatchesEnvironmentsInputs

SelectNext ==
    \/ FilterFiles
    \/ FilterFilesAgain
    \/ MatchesEnvironments

SelectSpec == SelectInit /\ [][SelectNext]_vars

-----------------------------------------------------------------------------
\* Dependency resolution on its own: MetadataParser.dependencies(extras, envs),
\* called as _process_file calls it, with the environment mappings of the
\* Mirrorer (self.envs.values()), which all calls share

\* the number of successive calls of dependencies() on the same environments
MaxCalls == 2

\* packaging.markers.Marker, reduced to one comparison of a variable with a literal
Marker(var, op, value) == [var |-> var, op |-> op, value |-> value]

\* req.marker is None
NoMarker == Marker("", "", "")

\* the number a python_version stands for when versions are compared
PyVersionNumber(v) ==
    CASE v = "3.6"  -> 306
      [] v = "3.7"  -> 307
      [] v = "3.8"  -> 308
      [] v = "3.9"  -> 309
      [] v = "3.10" -> 310

\* Marker.evaluate(env): the values of the mapping override the defaults
evaluate(marker, env) ==
    LET value == CASE marker.var = "python_version" -> env.python_version
                   [] marker.var = "sys_platform"   -> env.sys_platform
                   [] marker.var = "extra"          -> env.extra
    IN  CASE marker.op = "==" -> value = marker.value
          [] marker.op = ">=" -> PyVersionNumber(value) >= PyVersionNumber(marker.value)
          [] marker.op = ">"  -> PyVersionNumber(value) > PyVersionNumber(marker.value)
          [] marker.op = "<"  -> PyVersionNumber(value) < PyVersionNumber(marker.value)

\* a dependency: packaging.requirements.Requirement with its marker
Dep(name, specifier, marker) == [name |-> name, specifier |-> specifier, marker |-> marker]

\* a key of optional_dependencies: "<extra>" or "<extra>:<marker>" (split at ":")
Key(extra, marker) == [extra |-> extra, marker |-> marker]

\* MetadataParser after parse(): the dependency sets of two archives. The first
\* holds what _parse_metadata_12 files from the Requires-Dist lines of a
\* METADATA file, the second what _parse_requirestxt files from the sections of
\* requires.txt and setup_requires.txt
Metadata ==
    { [core_dependencies |->
           { Dep("six", "", NoMarker),
             Dep("numpy", ">=2", Marker("python_version", ">=", "3.8")),
             Dep("colorama", "", Marker("sys_platform", "==", "win32")) },
       build_dependencies |-> {},
       optional_dependencies |->
           { [key |-> Key("test", NoMarker),
              deps |-> { Dep("pytest", "", Marker("extra", "==", "test")) }] }],
      [core_dependencies |-> { Dep("six", "", NoMarker) },
       build_dependencies |-> { Dep("setuptools", "", NoMarker) },
       optional_dependencies |->
           { [key |-> Key("", Marker("python_version", ">=", "3.8")),
              deps |-> { Dep("numpy", "", NoMarker) }],
             [key |-> Key("test", Marker("sys_platform", "==", "win32")),
              deps |-> { Dep("colorama", "", NoMarker) }],
             [key |-> Key("", Marker("extra", "==", "test")),
              deps |-> { Dep("pytest", "", NoMarker) }],
             [key |-> Key("doc", NoMarker),
              deps |-> { Dep("sphinx", "", Marker("python_version", ">=", "3.8")) }] }] }

\* the extras a package is required with, and what ",".join(extras) can give
ExtrasSets == { {}, {"test"}, {"doc"}, {"test", "doc"} }

Joined(extras) ==
    CASE extras = {}              -> {""}
      [] extras = {"test"}        -> {"test"}
      [] extras = {"doc"}         -> {"doc"}
      [] extras = {"other"}       -> {"other"}
      [] extras = {"test", "doc"} -> {"test,doc", "doc,test"}

\* the [env.*] sections of the morgan.ini files dependencies are resolved for
DepEnvConfigs ==
    { << Env("3.7", "linux", "x86_64") >>,
      << Env("3.8", "linux", "x86_64") >>,
      << Env("3.7", "linux", "x86_64"), Env("3.10", "win32", "amd64") >> }

\* the position of the first environment for which a marker holds, `holds`
\* being what the marker gives for each environment; Len + 1 if there is none
FirstEnv(holds) ==
    IF \E i \in 1..Len(holds) : holds[i]
    THEN CHOOSE i \in 1..Len(holds) : holds[i] /\ \A j \in 1..(i - 1) : ~ holds[j]
    ELSE Len(holds) + 1

Min(a, b) == IF a <= b THEN a ELSE b

\* (mutant) the irrelevant dependencies are found but not removed from the result
MetadataParser_dependencies_KeepsAll(md, extras, joined, envs_) ==
    LET Bound(env) == [env EXCEPT !.extra = joined]
        \* first loop: the groups of optional_dependencies
        Considered(g) == g.key.marker # NoMarker /\ (g.key.extra = "" \/ g.key.extra \in extras)
        GroupHolds(g) == \E i \in 1..Len(envs_) : evaluate(g.key.marker, envs_[i])
        Included(g) == IF g.key.marker # NoMarker
                       THEN Considered(g) /\ GroupHolds(g)
                       ELSE g.key.extra \in extras
        union == md.core_dependencies \cup md.build_dependencies
                 \cup UNION {g.deps : g \in {h \in md.optional_dependencies : Included(h)}}
        groupSeen == UNION { LET holds == [i \in 1..Len(envs_) |-> evaluate(g.key.marker, envs_[i])]
                             IN  {envs_[i].extra : i \in 1..Min(Len(envs_), FirstEnv(holds))}
                             : g \in {h \in md.optional_dependencies : Considered(h)} }
        \* second loop: env["extra"] is set, then the marker of the dependency evaluated
        marked == {dep \in union : dep.marker # NoMarker}
        Relevant(dep) == \E i \in 1..Len(envs_) : evaluate(dep.marker, Bound(envs_[i]))
        Written(dep) == LET holds == [i \in 1..Len(envs_) |->
                                         evaluate(dep.marker, Bound(envs_[i]))]
                        IN  1..Min(Len(envs_), FirstEnv(holds))
        written == UNION {Written(dep) : dep \in marked}
    IN  [union  |-> union,
         result |-> union,
         envs   |-> [i \in 1..Len(envs_) |-> IF i \in written THEN Bound(envs_[i]) ELSE envs_[i]],
         seen   |-> groupSeen \cup (IF marked # {} /\ Len(envs_) > 0 THEN {joined} ELSE {})]

\* MetadataParser.dependencies(extras, envs) on the mappings envs_, where
\* ",".join(extras) gives `joined`:
\*   union   the dependencies collected by the first loop
\*   result  the set returned
\*   envs    the mappings as the call leaves them
\*   seen    the values `extra` had in the marker evaluations of the call
MetadataParser_dependencies(md, extras, joined, envs_) ==
    LET Bound(env) == [env EXCEPT !.extra = joined]
        \* first loop: the groups of optional_dependencies
        Considered(g) == g.key.marker # NoMarker /\ (g.key.extra = "" \/ g.key.extra \in extras)
        GroupHolds(g) == \E i \in 1..Len(envs_) : evaluate(g.key.marker, envs_[i])
        Included(g) == IF g.key.marker # NoMarker
                       THEN Considered(g) /\ GroupHolds(g)
                       ELSE g.key.extra \in extras
        union == md.core_dependencies \cup md.build_dependencies
                 \cup UNION {g.deps : g \in {h \in md.optional_dependencies : Included(h)}}
        groupSeen == UNION { LET holds == [i \in 1..Len(envs_) |-> evaluate(g.key.marker, envs_[i])]
                             IN  {envs_[i].extra : i \in 1..Min(Len(envs_), FirstEnv(holds))}
                             : g \in {h \in md.optional_dependencies : Considered(h)} }
        \* second loop: env["extra"] is set, then the marker of the dependency evaluated
        marked == {dep \in union : dep.marker # NoMarker}
        Relevant(dep) == \E i \in 1..Len(envs_) : evaluate(dep.marker, Bound(envs_[i]))
        Written(dep) == LET holds == [i \in 1..Len(envs_) |->
                                         evaluate(dep.marker, Bound(envs_[i]))]
                        IN  1..Min(Len(envs_), FirstEnv(holds))
        written == UNION {Written(dep) : dep \in marked}
    IN  [union  |-> union,
         result |-> {dep \in union : dep.marker = NoMarker \/ Relevant(dep)},
         envs   |-> [i \in 1..Len(envs_) |-> IF i \in written THEN Bound(envs_[i]) ELSE envs_[i]],
         seen   |-> groupSeen \cup (IF marked # {} /\ Len(envs_) > 0 THEN {joined} ELSE {})]

\* no call of dependencies() was made yet
NoDependenciesCall ==
    [op |-> "dependencies", calls |-> 0, md |-> CHOOSE md \in Metadata : TRUE, extras |-> {},
     joined |-> "", union |-> {}, result |-> {}, seen |-> {}]

\* _process_file: deps = md.dependencies(requirement.extras, self.envs.values())
Dependencies ==
    /\ call.op = "dependencies"
    /\ call.calls < MaxCalls
    /\ \E md \in Metadata, extras \in ExtrasSets :
         \E joined \in Joined(extras) :
           LET r == MetadataParser_dependencies(md, extras, joined, envs)
           IN  /\ envs' = r.envs
               /\ call' = [op |-> "dependencies", calls |-> call.calls + 1, md |-> md,
                            extras |-> extras, joined |-> joined, union |-> r.union,
                            result |-> r.result, seen |-> r.seen]
    /\ UNCHANGED engineVars

DependenciesInit ==
    /\ Constructed
    /\ envs \in DepEnvConfigs
    /\ call = NoDependenciesCall

DependenciesNext == Dependencies

DependenciesSpec == DependenciesInit /\ [][DependenciesNext]_vars

-----------------------------------------------------------------------------
\* Wheel scoring on its own: WheelScorer.score(fileInfo), which ranks the wheels
\* of one version (Mirrorer._calculate_scores_for_wheel in the tests)

\* the number of tags of a wheel
MaxTags == 2

\* the score of a source distribution: the maximum, above any wheel
MaxScore == 2147483647

\* the numbers of a version string <major> or <major>.<minor>
VersionParts(version) ==
    CASE version = "2"    -> << 2 >>
      [] version = "3"    -> << 3 >>
      [] version = "2.7"  -> << 2, 7 >>
      [] version = "3.8"  -> << 3, 8 >>
      [] version = "3.9"  -> << 3, 9 >>
      [] version = "3.10" -> << 3, 10 >>
      [] version = "3.11" -> << 3, 11 >>

\* the family and the two numbers (if any) of the platform tags of the model
PlatformShape(platform) ==
    CASE platform = "any"                   -> [family |-> "any",           nums |-> << >>]
      [] platform = "manylinux_2_28_x86_64" -> [family |-> "manylinux",     nums |-> << 2, 28 >>]
      [] platform = "manylinux_2_17_x86_64" -> [family |-> "manylinux",     nums |-> << 2, 17 >>]
      [] platform = "musllinux_1_2_x86_64"  -> [family |-> "musllinux",     nums |-> << 1, 2 >>]
      [] platform = "manylinux2014_x86_64"  -> [family |-> "manylinux2014", nums |-> << >>]
      [] platform = "manylinux1_x86_64"     -> [family |-> "manylinux1",    nums |-> << >>]
      [] platform = "macosx_10_9_x86_64"    -> [family |-> "macosx",        nums |-> << 10, 9 >>]
      [] platform = "win_amd64"             -> [family |-> "win",           nums |-> << >>]

\* the python score of a qualifying tag: major * 100 + minor
python_score(version) ==
    LET parts == VersionParts(version)
    IN  parts[1] * 100 + (IF Len(parts) > 1 THEN parts[2] ELSE 0)

\* the platform score of a qualifying tag
platform_score(platform) ==
    LET shape == PlatformShape(platform)
    IN  CASE shape.family = "any"           -> 0
          [] shape.family = "manylinux2014" -> 90
          [] shape.family = "manylinux2010" -> 80
          [] shape.family = "manylinux1"    -> 70
          [] Len(shape.nums) = 2            -> shape.nums[1] * 100 + shape.nums[2]
          [] OTHER                          -> 0

\* a tag qualifies: its interpreter is py or cp and has a parsed version
Qualifies(tag) ==
    /\ parse_interpreter(tag.interpreter).name \in {"py", "cp"}
    /\ parse_interpreter(tag.interpreter).version # ""

\* (mutant) each component is maximized on its own
MaxPairComponentwise(p, q) ==
    << IF q[1] > p[1] THEN q[1] ELSE p[1], IF q[2] > p[2] THEN q[2] ELSE p[2] >>

\* the maximum of two pairs, compared lexicographically
MaxPair(p, q) ==
    IF q[1] > p[1] \/ (q[1] = p[1] /\ q[2] > p[2]) THEN q ELSE p

\* the maximum (pythonScore, platformScore) over the qualifying tags, from (0, 0)
RECURSIVE BestScore(_)
BestScore(tags) ==
    IF tags = << >> THEN << 0, 0 >>
    ELSE LET tag  == tags[Len(tags)]
             rest == BestScore(SubSeq(tags, 1, Len(tags) - 1))
         IN  IF Qualifies(tag)
             THEN MaxPair(rest, << python_score(parse_interpreter(tag.interpreter).version),
                                   platform_score(tag.platform) >>)
             ELSE rest

\* WheelScorer.score(fileInfo)
calculate_scores_for_wheel(file) ==
    IF ~ file.is_wheel THEN << MaxScore, MaxScore >> ELSE BestScore(file.tags)

\* the tags of the wheels that are scored
ScoreInterpreters == {"py3", "cp38", "cp310", "cp311", "pp38", "something_strange"}
ScorePlatforms == {"any", "manylinux_2_28_x86_64", "manylinux_2_17_x86_64",
                   "manylinux2014_x86_64", "macosx_10_9_x86_64", "win_amd64"}
ScoreTags == {Tag(i, p) : i \in ScoreInterpreters, p \in ScorePlatforms}

\* a source distribution, and the wheels of up to MaxTags tags
ScoreFiles ==
    {[is_wheel |-> FALSE, tags |-> << >>]}
    \cup {[is_wheel |-> TRUE, tags |-> tags] :
             tags \in UNION {[1..n -> ScoreTags] : n \in 0..MaxTags}}

\* the applications of the scorer that are about to be made
ScoreInputs == [op : {"score"}, file : ScoreFiles, calls : {0}, result : {<< 0, 0 >>}]

\* score = mirrorer._calculate_scores_for_wheel(file)
CalculateScores ==
    /\ call.op = "score"
    /\ call.calls = 0
    /\ call' = [call EXCEPT !.calls = 1, !.result = calculate_scores_for_wheel(call.file)]
    /\ UNCHANGED envs
    /\ UNCHANGED engineVars

ScoreInit ==
    /\ Constructed
    /\ envs = << Env("3.10", "linux", "x86_64") >>
    /\ call \in ScoreInputs

ScoreNext == CalculateScores

ScoreSpec == ScoreInit /\ [][ScoreNext]_vars


-----------------------------------------------------------------------------
\* Requirement relevance on its own: utils.is_requirement_relevant and
\* utils.filter_relevant_requirements, applied as the tests of the repository
\* apply them (nothing in src/morgan calls them)

\* markers joined by `and` / `or`
MarkerAnd(left, right) == [var |-> "", op |-> "and", value |-> << left, right >>]
MarkerOr(left, right) == [var |-> "", op |-> "or", value |-> << left, right >>]

\* Marker.evaluate(env) for a marker built with `and` / `or`
RECURSIVE MarkerEvaluate(_, _)
MarkerEvaluate(marker, env) ==
    CASE marker.op = "and" -> MarkerEvaluate(marker.value[1], env) /\ MarkerEvaluate(marker.value[2], env)
      [] marker.op = "or"  -> MarkerEvaluate(marker.value[1], env) \/ MarkerEvaluate(marker.value[2], env)
      [] OTHER             -> evaluate(marker, env)

\* an environment mapping that has no key "extra"
PlainEnv(python_version, sys_platform, platform_machine) ==
    [python_version |-> python_version, sys_platform |-> sys_platform,
     platform_machine |-> platform_machine]

\* env.copy() on which "extra" is set to `extra`
WithExtra(env, extra) ==
    [python_version |-> env.python_version, sys_platform |-> env.sys_platform,
     platform_machine |-> env.platform_machine, extra |-> extra]

\* env_copy = env.copy(); env_copy.setdefault("extra", "");
\* if extras: env_copy["extra"] = ",".join(extras)
\* (extras = None and extras = set() are both the empty set here)
EnvCopy(env, extras, joined) ==
    IF extras # {} THEN WithExtra(env, joined)
    ELSE IF "extra" \in DOMAIN env THEN env
    ELSE WithExtra(env, "")

\* (mutant) the marker has to hold for every environment
is_requirement_relevant_EveryEnv(requirement, envs_, extras, joined) ==
    IF requirement.marker = NoMarker THEN TRUE
    ELSE IF Len(envs_) = 0 THEN TRUE
    ELSE \A i \in 1..Len(envs_) :
             MarkerEvaluate(requirement.marker, EnvCopy(envs_[i], extras, joined))

\* is_requirement_relevant(requirement, envs, extras), ",".join(extras) giving `joined`
is_requirement_relevant(requirement, envs_, extras, joined) ==
    IF requirement.marker = NoMarker THEN TRUE
    ELSE IF Len(envs_) = 0 THEN TRUE
    ELSE \E i \in 1..Len(envs_) :
             MarkerEvaluate(requirement.marker, EnvCopy(envs_[i], extras, joined))

\* filter_relevant_requirements(requirements, envs, extras)
filter_relevant_requirements(requirements, envs_, extras, joined) ==
    {req \in requirements : is_requirement_relevant(req, envs_, extras, joined)}

\* the requirements of src/tests/test_utils.py
RelevanceRequirements ==
    { Dep("simple-package", "", NoMarker),
      Dep("package", "", Marker("python_version", "<", "3.8")),
      Dep("package", "", Marker("python_version", ">", "3.9")),
      Dep("package", "", Marker("python_version", "<", "3.6")),
      Dep("package", "", Marker("python_version", ">=", "3.8")),
      Dep("package", "", Marker("sys_platform", "==", "linux")),
      Dep("package", "", MarkerOr(Marker("sys_platform", "==", "linux"),
                                  Marker("sys_platform", "==", "win32"))),
      Dep("package", "", Marker("sys_platform", "==", "freebsd")),
      Dep("package", "", Marker("extra", "==", "test")),
      Dep("package", "", MarkerAnd(Marker("python_version", ">=", "3.8"),
                                   Marker("extra", "==", "test"))),
      Dep("package", "", MarkerAnd(Marker("python_version", ">=", "3.9"),
                                   Marker("extra", "==", "test"))),
      Dep("package", "", MarkerOr(Marker("python_version", ">=", "3.9"),
                                  Marker("extra", "==", "test"))),
      Dep("package", "", MarkerAnd(Marker("python_version", "<", "3.8"),
                                   Marker("sys_platform", "==", "win32"))) }

\* the collections of requirements handed to filter_relevant_requirements
RelevanceCollections ==
    { {},
      { Dep("package1", "", NoMarker),
        Dep("package2", "", Marker("python_version", ">=", "3.8")) },
      { Dep("always-relevant", "", NoMarker),
        Dep("py37-only", "", Marker("python_version", "<", "3.8")),
        Dep("py38-plus", "", Marker("python_version", ">=", "3.8")),
        Dep("test-extra", "", Marker("extra", "==", "test")),
        Dep("not-relevant", "", Marker("python_version", "<", "3.6")) } }

\* the environments of the tests (no key "extra"), those of a Mirrorer as
\* constructed (extra = "") and as dependencies({"test"}, envs) leaves them
\* (extra = "test"), and none
RelevanceEnvs ==
    { << >>,
      << WithExtra(Envs[1], "test"), WithExtra(Envs[2], "test") >>,
      << PlainEnv("3.7", "linux", "x86_64"), PlainEnv("3.8", "linux", "x86_64"),
         PlainEnv("3.9", "linux", "x86_64") >>,
      << PlainEnv("3.8", "linux", "x86_64"), PlainEnv("3.8", "win32", "x86_64"),
         PlainEnv("3.8", "darwin", "x86_64") >>,
      << PlainEnv("3.7", "linux", "x86_64"), PlainEnv("3.9", "win32", "x86_64") >>,
      Envs }

\* the extras of the tests
RelevanceExtras == { {}, {"test"}, {"other"}, {"test", "doc"} }

IsRelevantInputs ==
    UNION { [op : {"is_requirement_relevant"}, calls : {0}, requirement : RelevanceRequirements,
             envs : RelevanceEnvs, extras : {extras}, joined : Joined(extras),
             result : {FALSE}] : extras \in RelevanceExtras }

FilterRelevantInputs ==
    UNION { [op : {"filter_relevant_requirements"}, calls : {0},
             requirements : RelevanceCollections, envs : RelevanceEnvs,
             extras : {extras}, joined : Joined(extras), result : {{}}]
            : extras \in RelevanceExtras }

\* result = is_requirement_relevant(req, environments, extras=extras)
IsRequirementRelevant ==
    /\ call.op = "is_requirement_relevant"
    /\ call.calls = 0
    /\ call' = [call EXCEPT !.calls = 1,
                            !.result = is_requirement_relevant(call.requirement, call.envs,
                                                               call.extras, call.joined)]
    /\ UNCHANGED envs
    /\ UNCHANGED engineVars

\* filtered = filter_relevant_requirements(requirements, environments, extras=extras)
FilterRelevantRequirements ==
    /\ call.op = "filter_relevant_requirements"
    /\ call.calls = 0
    /\ call' = [call EXCEPT !.calls = 1,
                            !.result = filter_relevant_requirements(call.requirements, call.envs,
                                                                    call.extras, call.joined)]
    /\ UNCHANGED envs
    /\ UNCHANGED engineVars

RelevanceInit ==
    /\ Constructed
    /\ envs = Envs
    /\ call \in IsRelevantInputs \cup FilterRelevantInputs

RelevanceNext ==
    \/ IsRequirementRelevant
    \/ FilterRelevantRequirements

RelevanceSpec == RelevanceInit /\ [][RelevanceNext]_vars


-----------------------------------------------------------------------------
\* Name canonicalization on its own: packaging.utils.canonicalize_name as
\* parse_requirement applies it, and normalize of the server, on names written
\* as sequences of characters

\* the length of the names built from NameAlphabet
MaxNameLen == 4

Separators == {"-", "_", "."}

NameAlphabet == {"r", "H"} \cup Separators

\* str.lower() on one character
Lower(c) ==
    CASE c = "H" -> "h"
      [] c = "P" -> "p"
      [] c = "R" -> "r"
      [] c = "T" -> "t"
      [] OTHER   -> c

LowerAll(cs) == [i \in 1..Len(cs) |-> Lower(cs[i])]

\* what follows the run of separators cs starts with
RECURSIVE SkipSeparators(_)
SkipSeparators(cs) ==
    IF cs # << >> /\ Head(cs) \in Separators THEN SkipSeparators(Tail(cs)) ELSE cs

\* (mutant) every separator is replaced on its own: re.sub(r"[-_.]", "-", name)
RECURSIVE FoldRunsEach(_)
FoldRunsEach(cs) ==
    IF cs = << >> THEN << >>
    ELSE IF Head(cs) \in Separators THEN << "-" >> \o FoldRunsEach(Tail(cs))
    ELSE << Head(cs) >> \o FoldRunsEach(Tail(cs))

\* re.sub(r"[-_.]+", "-", name)
RECURSIVE FoldRuns(_)
FoldRuns(cs) ==
    IF cs = << >> THEN << >>
    ELSE IF Head(cs) \in Separators THEN << "-" >> \o FoldRuns(SkipSeparators(cs))
    ELSE << Head(cs) >> \o FoldRuns(Tail(cs))

\* packaging.utils.canonicalize_name(name): _canonicalize_regex.sub("-", name).lower()
canonicalize_name_chars(cs) == LowerAll(FoldRuns(cs))

\* normalize(name) of the server: re.sub(r"[-_.]+", "-", name).lower()
normalize(cs) == LowerAll(FoldRuns(cs))

\* the names a requirement can have: they start and end with a letter
ValidName(cs) == cs[1] \notin Separators /\ cs[Len(cs)] \notin Separators

NamesOfLength(n) == {cs \in [1..n -> NameAlphabet] : ValidName(cs)}

\* the names of the tests and of the specification
LiteralNames ==
    { << "R", "e", "q", "u", "e", "s", "t", "s", "-", "H", "T", "T", "P" >>,
      << "R", "e", "q", "u", "e", "s", "t", "s", "_", "H", "T", "T", "P" >>,
      << "r", "e", "q", "u", "e", "s", "t", "s", ".", "h", "t", "t", "p" >> }

NameInputs ==
    [op : {"canonicalize"}, calls : {0},
     name : LiteralNames \cup UNION {NamesOfLength(n) : n \in 1..MaxNameLen},
     result : {<< >>}, again : {<< >>}, directory : {<< >>}, project : {<< >>}]

\* req = parse_requirement(req_string); _process_file stores the files of the
\* requirement under os.path.join(self.index_path, requirement.name, ...)
ParseRequirement ==
    /\ call.op = "canonicalize"
    /\ call.calls = 0
    /\ call' = [call EXCEPT !.calls = 1,
                            !.result = canonicalize_name_chars(call.name),
                            !.directory = canonicalize_name_chars(call.name)]
    /\ UNCHANGED envs
    /\ UNCHANGED engineVars

\* _process_file: dep.name = packaging.utils.canonicalize_name(dep.name), on a
\* name that is canonical already
CanonicalizeAgain ==
    /\ call.op = "canonicalize"
    /\ call.calls = 1
    /\ call' = [call EXCEPT !.calls = 2, !.again = canonicalize_name_chars(call.result)]
    /\ UNCHANGED envs
    /\ UNCHANGED engineVars

\* _serve_project / _serve_file: project = normalize(project), for the name as
\* the client wrote it
ServeProject ==
    /\ call.op = "canonicalize"
    /\ call.calls = 2
    /\ call' = [call EXCEPT !.calls = 3, !.project = normalize(call.name)]
    /\ UNCHANGED envs
    /\ UNCHANGED engineVars

NameInit ==
    /\ Constructed
    /\ envs = Envs
    /\ call \in NameInputs

NameNext ==
    \/ ParseRequirement
    \/ CanonicalizeAgain
    \/ ServeProject

NameSpec == NameInit /\ [][NameNext]_vars


-----------------------------------------------------------------------------
\* Requirement manifests on their own: MetadataParser._parse_requirestxt on the
\* lines of a requires.txt or setup_requires.txt, then dependencies()

\* the number of lines of a manifest
MaxLines == 3

\* MetadataParser.__init__: the sets of a parser that has parsed nothing
NewParser ==
    [core_dependencies |-> {}, build_dependencies |-> {}, optional_dependencies |-> {},
     seen_metadata_file |-> FALSE]

\* a line holding a requirement; Requirement(line) raises InvalidRequirement
\* when `valid` is FALSE
ReqLine(dep, valid) == [kind |-> "req", dep |-> dep, key |-> Key("", NoMarker), valid |-> valid]

\* a line "[<extra>]" or "[<extra>:<marker>]"
SectionLine(key) ==
    [kind |-> "section", dep |-> Dep("", "", NoMarker), key |-> key, valid |-> TRUE]

\* a line that starts with "[" and does not end with "]"
BadHeadingLine ==
    [kind |-> "badheading", dep |-> Dep("", "", NoMarker), key |-> Key("", NoMarker),
     valid |-> FALSE]

\* the requirements the lines `content` parse to
ContentDeps(content) == {content[i].dep : i \in 1..Len(content)}

\* [Requirement(dep) for dep in reqs] raises
ContentRaises(content) == \E i \in 1..Len(content) : ~ content[i].valid

\* _add_core_requirements(reqs)
add_core_requirements(md, content) ==
    IF ContentRaises(content) THEN [raised |-> TRUE, md |-> md]
    ELSE [raised |-> FALSE,
          md |-> [md EXCEPT !.core_dependencies = @ \cup ContentDeps(content)]]

\* _add_optional_requirements(extra, reqs): the group is created first
add_optional_requirements(md, key, content) ==
    LET created == IF \E g \in md.optional_dependencies : g.key = key
                   THEN md.optional_dependencies
                   ELSE md.optional_dependencies \cup {[key |-> key, deps |-> {}]}
        added == {IF g.key = key THEN [g EXCEPT !.deps = @ \cup ContentDeps(content)] ELSE g :
                     g \in created}
    IN  IF ContentRaises(content)
        THEN [raised |-> TRUE, md |-> [md EXCEPT !.optional_dependencies = created]]
        ELSE [raised |-> FALSE, md |-> [md EXCEPT !.optional_dependencies = added]]

\* the method the call site expects, which the class does not define:
\* build_dependencies |= the requirements
add_build_requirements_Defined(md, content) ==
    IF ContentRaises(content) THEN [raised |-> TRUE, md |-> md]
    ELSE [raised |-> FALSE,
          md |-> [md EXCEPT !.build_dependencies = @ \cup ContentDeps(content)]]

\* self._add_build_requirements(content): MetadataParser defines no such
\* method, the attribute lookup raises AttributeError
add_build_requirements(md, content) == [raised |-> TRUE, md |-> md]

\* the block of _parse_requirestxt that files `content`: under the section if
\* there is one, else as build requirements for setup_requires.txt, else as
\* core requirements
Flush(md, has_section, section, content, fpname) ==
    IF has_section THEN add_optional_requirements(md, section, content)
    ELSE IF fpname = "setup_requires.txt" THEN add_build_requirements(md, content)
    ELSE add_core_requirements(md, content)

\* the loop of _parse_requirestxt over the lines left, and the block after it
RECURSIVE ParseLines(_, _, _, _, _, _)
ParseLines(lines, md, has_section, section, content, fpname) ==
    IF lines = << >> THEN Flush(md, has_section, section, content, fpname)
    ELSE LET line == Head(lines)
         IN  CASE line.kind = "badheading" -> [raised |-> TRUE, md |-> md]
               [] line.kind = "section" ->
                    IF has_section \/ content # << >>
                    THEN LET r == Flush(md, has_section, section, content, fpname)
                         IN  IF r.raised THEN r
                             ELSE ParseLines(Tail(lines), r.md, TRUE, line.key, << >>, fpname)
                    ELSE ParseLines(Tail(lines), md, TRUE, line.key, << >>, fpname)
               [] OTHER ->
                    ParseLines(Tail(lines), md, has_section, section, Append(content, line), fpname)

\* MetadataParser._parse_requirestxt(fp), fp.name ending with fpname
parse_requirestxt(md, lines, fpname) ==
    ParseLines(lines, md, FALSE, Key("", NoMarker), << >>, fpname)

\* the lines manifests are made of
ManifestLines ==
    { ReqLine(Dep("six", "", NoMarker), TRUE),
      ReqLine(Dep("numpy", ">=2", NoMarker), TRUE),
      ReqLine(Dep("six", "<>", NoMarker), FALSE),
      SectionLine(Key("test", NoMarker)),
      SectionLine(Key("", Marker("python_version", ">=", "3.8"))),
      BadHeadingLine }

Manifests == UNION {[1..n -> ManifestLines] : n \in 0..MaxLines}

ManifestInputs ==
    [op : {"parse_requirestxt"}, calls : {0}, lines : Manifests,
     fpname : {"requires.txt", "setup_requires.txt"},
     raised : {FALSE}, md : {NewParser}, result : {{}}]

\* parser._parse_requirestxt(fp)
ParseRequirestxt ==
    /\ call.op = "parse_requirestxt"
    /\ call.calls = 0
    /\ LET r == parse_requirestxt(call.md, call.lines, call.fpname)
       IN  call' = [call EXCEPT !.calls = 1, !.raised = r.raised, !.md = r.md]
    /\ UNCHANGED envs
    /\ UNCHANGED engineVars

\* deps = md.dependencies(requirement.extras, self.envs.values()), no extra requested
DependenciesOfManifest ==
    /\ call.op = "parse_requirestxt"
    /\ call.calls = 1
    /\ LET r == MetadataParser_dependencies(call.md, {}, "", envs)
       IN  /\ call' = [call EXCEPT !.calls = 2, !.result = r.result]
           /\ envs' = r.envs
    /\ UNCHANGED engineVars

ManifestInit ==
    /\ Constructed
    /\ envs = Envs
    /\ call \in ManifestInputs

ManifestNext ==
    \/ ParseRequirestxt
    \/ DependenciesOfManifest

ManifestSpec == ManifestInit /\ [][ManifestNext]_vars


-----------------------------------------------------------------------------
\* Metadata extraction on its own: Mirrorer._extract_metadata on the members of
\* a downloaded archive, each handed to MetadataParser.parse

\* the number of members of an archive
MaxMembers == 3

\* a member of an archive: its name split at "/", and what it holds
\*   version  the Metadata-Version of a core-metadata file ("" when absent,
\*            "bad" when Version() raises InvalidVersion)
\*   lines    the Requires-Dist lines, the lines of a manifest, or the
\*            dependencies of a pyproject.toml
\*   loads    whether tomli.load accepts the file
Member(path, version, lines, loads) ==
    [path |-> path, version |-> version, lines |-> lines, loads |-> loads]

\* MetadataParser.parse: the parser chosen for a member of an archive whose
\* name ends with `ext`; "" when the member is ignored
ParseFunc(ext, path) ==
    LET n == Len(path)
        last == path[n]
    IN  CASE ext = "whl" ->
               IF n = 2 /\ path[1] = "pkg-1.dist-info" /\ last = "METADATA"
               THEN "_parse_metadata_file" ELSE ""
          [] ext = "zip" ->
               IF n \in {1, 2} /\ last = "PKG-INFO" THEN "_parse_metadata_file" ELSE ""
          [] ext = "tar.gz" ->
               IF n = 2 /\ last = "PKG-INFO" THEN "_parse_metadata_file"
               ELSE IF n \in {2, 3} /\ path[n - 1] = "pkg.egg-info"
                       /\ last \in {"requires.txt", "setup_requires.txt"}
               THEN "_parse_requirestxt"
               ELSE IF n = 2 /\ last = "pyproject.toml" THEN "_parse_pyproject"
               ELSE ""
          [] OTHER -> ""

\* _parse_metadata_12: the loop over the Requires-Dist lines; a requirement
\* whose marker tests `extra` goes to the group of that extra, the others are
\* core dependencies; what was added before a line that does not parse stays
RECURSIVE ParseRequiresDist(_, _)
ParseRequiresDist(md, lines) ==
    IF lines = << >> THEN [raised |-> FALSE, md |-> md]
    ELSE LET line == Head(lines)
             dep == line.dep
         IN  IF ~ line.valid THEN [raised |-> TRUE, md |-> md]
             ELSE IF dep.marker.var = "extra"
             THEN ParseRequiresDist(
                      add_optional_requirements(md, Key(dep.marker.value, NoMarker),
                                                << line >>).md,
                      Tail(lines))
             ELSE ParseRequiresDist([md EXCEPT !.core_dependencies = @ \cup {dep}],
                                    Tail(lines))

\* _parse_metadata_11: the loop over the Requires lines, all core dependencies
RECURSIVE ParseRequires(_, _)
ParseRequires(md, lines) ==
    IF lines = << >> THEN [raised |-> FALSE, md |-> md]
    ELSE IF ~ Head(lines).valid THEN [raised |-> TRUE, md |-> md]
    ELSE ParseRequires([md EXCEPT !.core_dependencies = @ \cup {Head(lines).dep}], Tail(lines))

\* MetadataParser._parse_metadata_file: nothing without a Metadata-Version;
\* Version(metadata_version) raises for "bad"; 1.1 has Requires lines, 1.2 and
\* later Requires-Dist lines
parse_metadata_file(md, member) ==
    CASE member.version = ""    -> [raised |-> FALSE, md |-> md]
      [] member.version = "bad" -> [raised |-> TRUE, md |-> md]
      [] member.version = "1.1" -> ParseRequires(md, member.lines)
      [] OTHER                  -> ParseRequiresDist(md, member.lines)

\* MetadataParser._parse_pyproject: tomli.load, then the dependencies of the
\* project table
parse_pyproject(md, member) ==
    IF ~ member.loads THEN [raised |-> TRUE, md |-> md]
    ELSE add_core_requirements(md, member.lines)

\* MetadataParser.parse(opener, filename): the main metadata file is kept
\* before it is parsed
parse(md, ext, member) ==
    LET func == ParseFunc(ext, member.path)
        read == IF func = "_parse_metadata_file"
                THEN [md EXCEPT !.seen_metadata_file = TRUE] ELSE md
    IN  CASE func = "_parse_metadata_file" -> parse_metadata_file(read, member)
          [] func = "_parse_requirestxt" ->
               parse_requirestxt(read, member.lines, member.path[Len(member.path)])
          [] func = "_parse_pyproject" -> parse_pyproject(read, member)
          [] OTHER -> [raised |-> FALSE, md |-> md]

\* the members archives are made of
SampleMembers ==
    { Member(<< "pkg-1", "PKG-INFO" >>, "2.1",
             << ReqLine(Dep("six", "", NoMarker), TRUE),
                ReqLine(Dep("pytest", "", Marker("extra", "==", "test")), TRUE) >>, TRUE),
      Member(<< "pkg-1", "PKG-INFO" >>, "bad",
             << ReqLine(Dep("six", "", NoMarker), TRUE) >>, TRUE),
      Member(<< "PKG-INFO" >>, "1.1",
             << ReqLine(Dep("requests", "", NoMarker), TRUE),
                ReqLine(Dep("six", "<>", NoMarker), FALSE) >>, TRUE),
      Member(<< "pkg-1.dist-info", "METADATA" >>, "2.1",
             << ReqLine(Dep("six", "<>", NoMarker), FALSE),
                ReqLine(Dep("requests", "", NoMarker), TRUE) >>, TRUE),
      Member(<< "pkg-1", "pkg.egg-info", "requires.txt" >>, "",
             << ReqLine(Dep("numpy", ">=2", NoMarker), TRUE),
                SectionLine(Key("test", NoMarker)),
                ReqLine(Dep("pytest", "", NoMarker), TRUE) >>, TRUE),
      Member(<< "pkg-1", "pkg.egg-info", "requires.txt" >>, "",
             << ReqLine(Dep("numpy", ">=2", NoMarker), TRUE), BadHeadingLine >>, TRUE),
      Member(<< "pkg-1", "pkg.egg-info", "setup_requires.txt" >>, "",
             << ReqLine(Dep("setuptools", "", NoMarker), TRUE) >>, TRUE),
      Member(<< "pkg-1", "pyproject.toml" >>, "",
             << ReqLine(Dep("requests", "", NoMarker), TRUE) >>, FALSE),
      Member(<< "pkg-1", "pyproject.toml" >>, "",
             << ReqLine(Dep("colorama", "", NoMarker), TRUE) >>, TRUE),
      Member(<< "pkg-1", "setup.py" >>, "", << >>, TRUE) }

Archives == UNION {[1..n -> SampleMembers] : n \in 0..MaxMembers}

\* a call of _extract_metadata before its loop: md = MetadataParser(filepath)
\*   idx         the member the loop is at
\*   tried       for each member the loop went through, the parser it was handed to
\*   failed      the positions of the members whose parsing raised
\*   md_sidecar  whether <file>.metadata was written
\*   returned    whether the call has returned md
ExtractInputs ==
    [op : {"extract_metadata"}, ext : {"whl", "zip", "tar.gz"}, members : Archives,
     idx : {1}, md : {NewParser}, tried : {<< >>}, failed : {{}}, raised : {FALSE},
     md_sidecar : {FALSE}, returned : {FALSE}]

\* (mutant) no try/except around md.parse: the exception leaves the call
ParseMemberUncaught ==
    /\ call.op = "extract_metadata"
    /\ ~ call.raised
    /\ call.idx <= Len(call.members)
    /\ LET member == call.members[call.idx]
           r == parse(call.md, call.ext, member)
       IN  call' = [call EXCEPT !.idx = @ + 1,
                                !.md = r.md,
                                !.tried = Append(@, ParseFunc(call.ext, member.path)),
                                !.failed = IF r.raised THEN @ \cup {call.idx} ELSE @,
                                !.raised = r.raised]
    /\ UNCHANGED envs
    /\ UNCHANGED engineVars

\* one iteration of `for member in members`: try: md.parse(opener, member)
\* except Exception: print(...)
ParseMember ==
    /\ call.op = "extract_metadata"
    /\ ~ call.raised
    /\ call.idx <= Len(call.members)
    /\ LET member == call.members[call.idx]
           r == parse(call.md, call.ext, member)
       IN  call' = [call EXCEPT !.idx = @ + 1,
                                !.md = r.md,
                                !.tried = Append(@, ParseFunc(call.ext, member.path)),
                                !.failed = IF r.raised THEN @ \cup {call.idx} ELSE @]
    /\ UNCHANGED envs
    /\ UNCHANGED engineVars

\* after the loop: the .metadata file is written if the main metadata file was
\* seen, the archive is closed, md is returned
ExtractReturn ==
    /\ call.op = "extract_metadata"
    /\ ~ call.raised
    /\ ~ call.returned
    /\ call.idx > Len(call.members)
    /\ call' = [call EXCEPT !.md_sidecar = call.md.seen_metadata_file, !.returned = TRUE]
    /\ UNCHANGED envs
    /\ UNCHANGED engineVars

ExtractInit ==
    /\ Constructed
    /\ envs = Envs
    /\ call \in ExtractInputs

ExtractNext ==
    \/ ParseMember
    \/ ExtractReturn

ExtractSpec == ExtractInit /\ [][ExtractNext]_vars


-----------------------------------------------------------------------------
\* Content negotiation of the server on its own: parse_accept_option,
\* parse_accept_header and RequestHandler.do_GET

\* the number of options of an Accept header
MaxOptions == 2

PYPI_JSON_TYPE_V1 == "application/vnd.pypi.simple.v1+json"
PYPI_JSON_TYPE_LT == "application/vnd.pypi.simple.latest+json"
PYPI_HTML_TYPE_V1 == "application/vnd.pypi.simple.v1+html"
GENL_HTML_TYPE == "text/html"

\* the value None of a selected MIME type
NoType == "<None>"

\* one option of an Accept header as the client wrote it: the MIME type, and
\* after it nothing (params = ""), ";q=<q>" (params = "q", q in tenths) or
\* ";charset=UTF-8" (params = "charset")
Option(mime, params, q) == [mime |-> mime, params |-> params, q |-> q]

\* parse_accept_option as its docstring describes it: the MIME type is what
\* precedes the first ";", the priority is zero when none is listed
parse_accept_option_AnyParams(option) ==
    [mime |-> option.mime, priority |-> IF option.params = "q" THEN option.q ELSE 0]

\* parse_accept_option(option): opt_re matches only when ";...q=<digit>"
\* follows the MIME type; without a match the whole option is the MIME type
parse_accept_option(option) ==
    CASE option.params = "q" -> [mime |-> option.mime, priority |-> option.q]
      [] option.params = ""  -> [mime |-> option.mime, priority |-> 0]
      [] OTHER               -> [mime |-> option.mime \o ";charset=UTF-8", priority |-> 0]

\* list.sort(key=priority, reverse=True) puts one more option in its place:
\* after the options of the same or a higher priority (the sort is stable)
RECURSIVE InsertByPriority(_, _)
InsertByPriority(sorted, option) ==
    IF sorted = << >> THEN << option >>
    ELSE IF Head(sorted).priority >= option.priority
    THEN << Head(sorted) >> \o InsertByPriority(Tail(sorted), option)
    ELSE << option >> \o sorted

\* options.sort(key=lambda option: option["priority"], reverse=True)
RECURSIVE SortByPriorityDesc(_)
SortByPriorityDesc(options) ==
    IF options = << >> THEN << >>
    ELSE InsertByPriority(SortByPriorityDesc(SubSeq(options, 1, Len(options) - 1)),
                          options[Len(options)])

SupportedTypes == {PYPI_JSON_TYPE_V1, PYPI_JSON_TYPE_LT, PYPI_HTML_TYPE_V1, GENL_HTML_TYPE}

\* (mutant) the options are taken in the order of the header
parse_accept_header_Unsorted(header_val) ==
    LET options == [i \in 1..Len(header_val) |-> parse_accept_option(header_val[i])]
        hits == {i \in 1..Len(options) : options[i].mime \in SupportedTypes}
    IN  IF header_val = << >> THEN PYPI_HTML_TYPE_V1
        ELSE IF hits # {}
        THEN options[CHOOSE i \in hits : \A j \in hits : i <= j].mime
        ELSE IF \E i \in 1..Len(options) : options[i].mime = "*/*" THEN PYPI_HTML_TYPE_V1
        ELSE NoType

\* parse_accept_header(header_val), the header being the sequence of its
\* comma-separated options (<< >> for None and for "")
parse_accept_header(header_val) ==
    LET options == SortByPriorityDesc(
                       [i \in 1..Len(header_val) |-> parse_accept_option(header_val[i])])
        hits == {i \in 1..Len(options) : options[i].mime \in SupportedTypes}
    IN  IF header_val = << >> THEN PYPI_HTML_TYPE_V1
        ELSE IF hits # {}
        THEN options[CHOOSE i \in hits : \A j \in hits : i <= j].mime
        ELSE IF \E i \in 1..Len(options) : options[i].mime = "*/*" THEN PYPI_HTML_TYPE_V1
        ELSE NoType

\* the options clients send
AcceptOptions ==
    {Option(mime, params, 0) :
         mime \in SupportedTypes \cup {"*/*", "text/xml"}, params \in {"", "charset"}}
    \cup {Option(mime, "q", q) :
              mime \in SupportedTypes \cup {"*/*", "text/xml"}, q \in {1, 5, 10}}

AcceptHeaders == UNION {[1..n -> AcceptOptions] : n \in 0..MaxOptions}

\* the paths of the requests: the index, a project, a file, anything else
RequestPaths == {"/", "/pkg/", "/pkg/pkg-1.tar.gz", "/a/b/c"}

\* do_GET: what the path is answered with once a content type is selected
Served(path) ==
    CASE path = "/"                  -> "project_listing"
      [] path = "/pkg/"              -> "project"
      [] path = "/pkg/pkg-1.tar.gz"  -> "file"
      [] OTHER                       -> "notfound"

AcceptInputs ==
    [op : {"parse_accept_header"}, calls : {0}, header : AcceptHeaders, path : {"/"},
     ct : {NoType}, status : {0}, served : {""}]
    \cup [op : {"do_GET"}, calls : {0}, header : AcceptHeaders, path : RequestPaths,
          ct : {NoType}, status : {0}, served : {""}]

\* got_mime = server.parse_accept_header(accept_header)
ParseAcceptHeader ==
    /\ call.op = "parse_accept_header"
    /\ call.calls = 0
    /\ call' = [call EXCEPT !.calls = 1, !.ct = parse_accept_header(call.header)]
    /\ UNCHANGED envs
    /\ UNCHANGED engineVars

\* RequestHandler.do_GET: 406 when no content type is selected, else the path
\* is served (200 or 404, as the index has the project or file or not)
DoGET ==
    /\ call.op = "do_GET"
    /\ call.calls = 0
    /\ LET ct == parse_accept_header(call.header)
       IN  IF ct = NoType
           THEN call' = [call EXCEPT !.calls = 1, !.ct = ct, !.status = 406, !.served = "none"]
           ELSE \E found \in BOOLEAN :
                    call' = [call EXCEPT !.calls = 1, !.ct = ct,
                                         !.served = Served(call.path),
                                         !.status = IF found /\ Served(call.path) # "notfound"
                                                    THEN 200 ELSE 404]
    /\ UNCHANGED envs
    /\ UNCHANGED engineVars

AcceptInit ==
    /\ Constructed
    /\ envs = Envs
    /\ call \in AcceptInputs

AcceptNext ==
    \/ ParseAcceptHeader
    \/ DoGET

AcceptSpec == AcceptInit /\ [][AcceptNext]_vars

-----------------------------------------------------------------------------
\* Properties

\* the files _filter_files selects for a serialized requirement (<< >> if none)
SelectedFor(s) == filter_files(RequirementOf(s), CatalogFiles(RequirementOf(s).name))

\* the state is at a call of _mirror, and this is the requirement it is called with
AtCall == \/ pc = "top" /\ reqIdx <= Len(config)
          \/ pc = "wave" /\ depIdx <= Len(deps)

CalledRequirement ==
    IF pc = "top" THEN parse_requirement(config[reqIdx]) ELSE deps[depIdx].requirement

\* _mirror has left its file loop and is about to return its depdict
AtReturn == pc = "files" /\ cur.idx > Len(cur.files)

\* C1: a requirement string is in the processed set only if its listing was
\* retrieved and validated and every file selected for it was attempted; it is
\* never there while unvisited, in flight, or after an error or a null resolution.
C1_ProcessedOnlyWhenResolved ==
    \A s \in processed :
        /\ s \in listed
        /\ status[s] = "done"
        /\ ~ (pc = "files" /\ ReqStr(cur.requirement) = s)
        /\ ~ SelectedFor(s).none
        /\ \A i \in 1..Len(SelectedFor(s).files) :
               <<s, SelectedFor(s).files[i].filename>> \in attempts

\* C1 witness: "c" is processed although one of its two files failed
C1_Witness ==
    /\ "c" \in processed
    /\ <<"c", "c-1.zip">> \in attempts
    /\ disk["c-1.zip"] = Absent

\* C2 (as claimed): when mirror() has ended without a fatal error, every
\* dependency that extraction returned has been handed to _mirror or is processed.
C2_ClosureComplete ==
    pc \in {"top", "done"} => discovered \subseteq (submitted \cup processed)

\* a measure of the work a run has left: the requirements of morgan.ini not yet
\* mirrored, the requirement strings not yet processed, the entries queued for
\* the next wave, the entries left in the current wave, the position in the
\* control flow, the files left in the file loop; ordered lexicographically
Stage == CASE pc = "top" -> 3 [] pc = "wave" -> 2 [] pc = "files" -> 1 [] OTHER -> 0

Rank == << (Len(config) + 1) - reqIdx,
           Cardinality(ReqStrs \ processed),
           Len(next_deps),
           (Len(deps) + 1) - depIdx,
           Stage,
           IF pc = "files" THEN (Len(cur.files) + 1) - cur.idx ELSE 0 >>

LexLess(x, y) ==
    \E i \in 1..Len(x) : x[i] < y[i] /\ \A j \in 1..(i - 1) : x[j] = y[j]

\* C3: every call of mirror() terminates, cyclic dependencies included: from
\* inside the resolution (file loop or wave loop) the run gets back to
\* mirror(args), or ends with an exception; and no step of a run repeats work:
\* each strictly decreases the measure Rank, which is well-founded.
C3_MirrorTerminates ==
    /\ (pc \in {"files", "wave"}) ~> (pc \in {"top", "fatal"})
    /\ [][LexLess(Rank', Rank)]_vars

\* C3 witness: the cycle a -> b<2 -> a was closed and mirror() returned
C3_Witness ==
    /\ pc = "top"
    /\ reqIdx > 1
    /\ {"a", "b<2"} \subseteq processed
    /\ {"a", "b<2"} \subseteq discovered

\* C4 (as claimed): queuing or processing a requirement never displaces another
\* requirement of the same package: inside mirror(), every discovered requirement
\* string is processed, was submitted, or is still queued in a dictionary.
C4_NoRequirementDisplaced ==
    pc \in {"files", "wave"} =>
        discovered \subseteq (submitted \cup processed \cup QueuedStrs(cur.depdict)
                              \cup QueuedStrs(next_deps) \cup QueuedStrs(deps))

\* C5: a call of _mirror with a requirement whose string is processed is a
\* no-op: no catalog query, no fetch, nothing written, the processed set and
\* the next wave as they were.
C5_SkipIsNoOp ==
    [][ (AtCall /\ ReqStr(CalledRequirement) \in processed) =>
            /\ io'.response = NoResponse
            /\ ~ io'.fetch
            /\ disk' = disk
            /\ sidecar' = sidecar
            /\ processed' = processed
            /\ next_deps' = next_deps
            /\ cur' = cur
            /\ pc' = pc ]_vars

\* C5 witness: a dependency was skipped as already processed
C5_Witness == io.step = "skip" /\ pc = "wave" /\ depIdx > 1

\* C6 (as claimed): an HTTP error of the catalog query is fatal for a directly
\* requested requirement and swallowed for a dependency, after which the wave goes on.
C6_TransportErrorPolicy ==
    [][ (AtCall /\ ReqStr(CalledRequirement) \notin processed /\ io'.response.status = 404) =>
            IF pc = "top"
            THEN pc' = "fatal"
            ELSE pc' = "wave" /\ depIdx' = depIdx + 1 ]_vars

\* C7: when selection finds no file for the specifier set or the environments,
\* a directly requested requirement ends the run with an error, and a dependency
\* is a null resolution: nothing fetched or written, nothing added to the next
\* wave, and the wave goes on with the next requirement.
C7_NoMatchPolicy ==
    [][ (/\ AtCall
         /\ ReqStr(CalledRequirement) \notin processed
         /\ ValidListing(io'.response)
         /\ SelectedFor(ReqStr(CalledRequirement)).none) =>
            IF pc = "top"
            THEN pc' = "fatal"
            ELSE /\ pc' = "wave"
                 /\ depIdx' = depIdx + 1
                 /\ ~ io'.fetch
                 /\ disk' = disk
                 /\ sidecar' = sidecar
                 /\ next_deps' = next_deps
                 /\ deps' = deps
                 /\ processed' = processed ]_vars

\* C7 witness: the dependency c>=2 (no file matches the environments) was a null
\* resolution and the wave went on
C7_Witness ==
    /\ io.step = "null"
    /\ pc = "wave"
    /\ depIdx > 1
    /\ ReqStr(deps[depIdx - 1].requirement) = "c>=2"

\* C8: a response with another API major version than 1, or without a list of
\* files, aborts the run for a direct request and for a dependency alike;
\* nothing of the requirement is fetched and it is not marked processed.
C8_ProtocolErrorFatal ==
    [][ (/\ AtCall
         /\ ReqStr(CalledRequirement) \notin processed
         /\ io'.response.status = 200
         /\ io'.response.api_version = "2.0" \/ io'.response.files # "list") =>
            /\ pc' = "fatal"
            /\ ~ io'.fetch
            /\ disk' = disk
            /\ processed' = processed
            /\ cur' = cur ]_vars

\* C8 witness: the run was aborted by an API 2.0 response to a dependency's query
C8_Witness ==
    /\ pc = "fatal"
    /\ io.response.status = 200
    /\ io.response.api_version = "2.0"
    /\ Len(deps) > 0
    /\ depIdx <= Len(deps)

\* C9 (as claimed): when a file of a requirement failed, every selected file was
\* still attempted, every dependency found in the files that succeeded is in the
\* returned dictionary, the requirement is marked processed and the run goes on.
C9_FileFailureContained ==
    [][ (AtReturn /\ cur.failed # {}) =>
            /\ \A i \in 1..Len(cur.files) :
                   <<ReqStr(cur.requirement), cur.files[i].filename>> \in attempts
            /\ cur.found \subseteq QueuedStrs(cur.depdict)
            /\ ReqStr(cur.requirement) \in processed'
            /\ pc' = "wave" ]_vars

\* C10: a target whose bytes hash to the advertised digest is accepted without a
\* fetch and left as it is; and once _download_file has returned for a file, a
\* second call on the unmodified target fetches nothing, whatever the network
\* would answer, returns as well and leaves the target and its sidecar as they are.
C10_DownloadIdempotent ==
    [][ (/\ pc = "files"
         /\ cur.idx <= Len(cur.files)
         /\ PREFERRED_HASH_ALG \in cur.files[cur.idx].hashes) =>
            LET file == cur.files[cur.idx]
                fn == file.filename
            IN  /\ disk[fn] = GoodBytes =>
                       /\ ~ io'.fetch
                       /\ disk' = disk
                /\ fn \notin cur'.failed =>
                       \A o2 \in FetchOutcomes :
                           LET again == download_file(file, disk'[fn], sidecar'[fn],
                                                      PREFERRED_HASH_ALG, o2)
                           IN  /\ ~ again.fetched
                               /\ ~ again.raised
                               /\ again.contents = disk'[fn]
                               /\ again.sidecar = sidecar'[fn] ]_vars

\* C10 witness: a file already stored with the right bytes was processed again
\* (by a second requirement of the run, or by a second run) without a fetch
C10_Witness ==
    /\ pc = "files"
    /\ cur.idx > 1
    /\ io.step = "file"
    /\ ~ io.fetch
    /\ disk[cur.files[cur.idx - 1].filename] = GoodBytes

\* the files of a listing that selection may return for a requirement: supported
\* extension, a version that parses, not yanked, inside the specifier set, and
\* matching the environments
Eligible(requirement, file) ==
    /\ SupportedExtension(file)
    /\ file.ver # 0
    /\ ~ file.yanked
    /\ SpecifierContains(requirement.specifier, file.ver)
    /\ matches_environments(file)

\* the files of a sequence, as a set
Range(seq) == {seq[i] : i \in 1..Len(seq)}

\* C11: in default mode selection returns exactly the eligible files of the
\* highest eligible version V: all of them, each once, and no file of another
\* version; and nothing when no file is eligible.
C11_DefaultSelectsHighestVersion ==
    (call.op = "filter_files" /\ call.calls = 1 /\ call.mode = "latest") =>
        LET E   == {f \in Range(call.files) : Eligible(call.requirement, f)}
            V   == CHOOSE v \in {f.ver : f \in E} : \A f \in E : f.ver <= v
            out == call.result.files
        IN  IF E = {} THEN call.result.none
            ELSE /\ ~ call.result.none
                 /\ Range(out) = {f \in E : f.ver = V}
                 /\ \A j \in 1..Len(out) : out[j].ver = V
                 /\ Len(out) = Cardinality({f \in E : f.ver = V})

\* C11 witness: versions 4, 3, 2, 1 with >=2,<4 gave the file of version 3 only
C11_Witness ==
    /\ call.op = "filter_files" /\ call.calls = 1 /\ call.mode = "latest"
    /\ call.requirement.specifier = ">=2,<4"
    /\ {f.filename : f \in Range(call.files)} =
           {"pkg-4.tar.gz", "pkg-3.tar.gz", "pkg-2.zip", "pkg-1.tar.gz"}
    /\ ~ call.result.none
    /\ [j \in 1..Len(call.result.files) |-> call.result.files[j].filename] = << "pkg-3.tar.gz" >>

SatisfiesRequiresPython(rp, python_version) ==
    LET spec == IF rp = "3" THEN "==3" ELSE rp
    IN  RequiresPythonValid(spec) /\ RequiresPythonContains(spec, python_version)

\* C13: a file that declares requires-python passes the environment filter only
\* if the python_version of every target environment satisfies it; the same
\* holds of every file that selection returns.
C13_RequiresPythonEveryEnvironment ==
    /\ (call.op = "matches_environments" /\ call.calls = 1
            /\ call.fileinfo.requires_python # "" /\ call.result) =>
           \A i \in 1..Len(envs) :
               SatisfiesRequiresPython(call.fileinfo.requires_python, envs[i].python_version)
    /\ (call.op = "filter_files" /\ call.calls = 1) =>
           \A j \in 1..Len(call.result.files) :
               call.result.files[j].requires_python # "" =>
                   \A i \in 1..Len(envs) :
                       SatisfiesRequiresPython(call.result.files[j].requires_python,
                                               envs[i].python_version)

\* C13 witness: requires-python >=3.9 holds for the environment with python
\* 3.10 and not for the one with python 3.8, and the file was rejected
C13_Witness ==
    /\ call.op = "matches_environments" /\ call.calls = 1
    /\ call.fileinfo.requires_python = ">=3.9"
    /\ \E i \in 1..Len(envs) : SatisfiesRequiresPython(">=3.9", envs[i].python_version)
    /\ \E i \in 1..Len(envs) : ~ SatisfiesRequiresPython(">=3.9", envs[i].python_version)
    /\ ~ call.result

\* a tag is compatible with one environment: a py/cp interpreter without
\* version, with a major version only, or with the environment's
\* python_version, on the platform `any` or on a platform that the
\* environment's pattern matches
TagFitsEnvironment(tag, env) ==
    LET intrp == parse_interpreter(tag.interpreter)
    IN  /\ intrp.name \in {"py", "cp"}
        /\ \/ intrp.version = ""
           \/ intrp.version \in Digits
           \/ intrp.version = env.python_version
        /\ \/ tag.platform = "any"
           \/ PlatformFullmatch([sys |-> env.sys_platform, machine |-> env.platform_machine],
                                tag.platform)

\* C14 (as claimed): a wheel passes the environment filter only if one of its
\* tags is compatible, by interpreter version and by platform, with one and the
\* same target environment.
C14_TagFitsOneEnvironment ==
    (call.op = "matches_environments" /\ call.calls = 1
        /\ Len(call.fileinfo.tags) > 0 /\ call.result) =>
        \E i \in 1..Len(envs), t \in 1..Len(call.fileinfo.tags) :
            TagFitsEnvironment(call.fileinfo.tags[t], envs[i])

\* C15: selection run again on the list it returned, with the same requirement,
\* environments and mode, returns that list: the same files in the same order.
C15_SelectionIdempotent ==
    (call.op = "filter_files" /\ call.calls = 2) =>
        /\ ~ call.result.none
        /\ call.result.files = call.files

\* C15 witness: a selection of several files of one version, made from a listing
\* in default mode, was selected again
C15_Witness ==
    /\ call.op = "filter_files" /\ call.calls = 2 /\ call.mode = "latest"
    /\ Len(call.files) >= 2
    /\ Len(call.result.files) >= 2

\* every dependency a parsed archive of the model declares
AllDeps(md) ==
    md.core_dependencies \cup md.build_dependencies
    \cup UNION {g.deps : g \in md.optional_dependencies}

\* C16: a dependency with a marker is in the result of dependencies(extras, envs)
\* if and only if it is in the collected union and its marker holds for at least
\* one environment (extra being the joined extras); a dependency without marker
\* that is in the union is in the result.
C16_MarkedDependencyKeptIffRelevant ==
    (call.op = "dependencies" /\ call.calls >= 1) =>
        \A dep \in AllDeps(call.md) :
            dep \in call.result <=>
                /\ dep \in call.union
                /\ \/ dep.marker = NoMarker
                   \/ \E i \in 1..Len(envs) :
                          evaluate(dep.marker, [envs[i] EXCEPT !.extra = call.joined])

\* C16 witness: for the single environment python_version = 3.7 the dependency
\* numpy>=2; python_version >= "3.8" was collected and is absent from the
\* result, which holds the markerless six
C16_Witness ==
    /\ call.op = "dependencies" /\ call.calls >= 1
    /\ Len(envs) = 1 /\ envs[1].python_version = "3.7"
    /\ Dep("numpy", ">=2", Marker("python_version", ">=", "3.8")) \in call.union
    /\ Dep("numpy", ">=2", Marker("python_version", ">=", "3.8")) \notin call.result
    /\ Dep("six", "", NoMarker) \in call.result

\* the environment mappings as Mirrorer.__init__ builds them: extra = ""
AsConfigured(envs_) == [i \in 1..Len(envs_) |-> [envs_[i] EXCEPT !.extra = ""]]

\* C17 (as claimed): every marker evaluation of a call of dependencies() sees
\* `extra` bound to the joined extras of that call, and the result of the call is
\* the one the same call gives on the environments as configured, whatever calls
\* were made before.
C17_ExtraBoundToCurrentCall ==
    [][ (call.op = "dependencies" /\ call'.calls = call.calls + 1) =>
            /\ call'.seen \subseteq {call'.joined}
            /\ call'.result =
                   MetadataParser_dependencies(call'.md, call'.extras, call'.joined,
                                               AsConfigured(envs)).result ]_vars

\* the python scores the interpreter tags of the scored wheels stand for; the
\* other interpreter tags (pp38, something_strange) do not contribute
ExpectedPythonScore(interpreter) ==
    CASE interpreter = "py3"   -> 300
      [] interpreter = "cp38"  -> 308
      [] interpreter = "cp310" -> 310
      [] interpreter = "cp311" -> 311

CPythonMinor(interpreter) ==
    CASE interpreter = "cp38"  -> 8
      [] interpreter = "cp310" -> 10
      [] interpreter = "cp311" -> 11

\* C19: the first score component of a wheel with the single tag cp3<minor> is
\* 300 + minor (300 for py3), and a wheel that differs from it only by a higher
\* minor version has a strictly higher first component.
C19_ScoreMonotoneInMinor ==
    (call.op = "score" /\ call.calls = 1 /\ call.file.is_wheel /\ Len(call.file.tags) = 1) =>
        LET tag == call.file.tags[1]
            CP  == {"cp38", "cp310", "cp311"}
        IN  /\ tag.interpreter = "py3" => call.result[1] = 300
            /\ tag.interpreter \in CP =>
                   /\ call.result[1] = 3 * 100 + CPythonMinor(tag.interpreter)
                   /\ \A other \in CP :
                          CPythonMinor(other) > CPythonMinor(tag.interpreter) =>
                              calculate_scores_for_wheel(
                                  [is_wheel |-> TRUE,
                                   tags |-> << Tag(other, tag.platform) >>])[1] > call.result[1]

\* C19 witness: the wheel with the single tag cp38/manylinux_2_17_x86_64 scored
\* 308 in its first component (cp310 and cp311 on that platform score higher)
C19_Witness ==
    /\ call.op = "score" /\ call.calls = 1
    /\ call.file.tags = << Tag("cp38", "manylinux_2_17_x86_64") >>
    /\ call.result = << 308, 217 >>

\* the file loop of _mirror is about to hand a file to _process_file
AtProcessFile == pc = "files" /\ cur.idx <= Len(cur.files)

\* C20 (as claimed): within a run a file is selected and processed at most once:
\* the file about to be processed was not processed before in this run, by this
\* or by another requirement string of its package.
C20_FileProcessedOncePerRun ==
    AtProcessFile =>
        \A s \in ReqStrs : <<s, cur.files[cur.idx].filename>> \notin attempts

\* C20 (amended): within a run a file is selected and processed at most once for
\* each requirement string: the file about to be processed was not processed
\* before in this run for the requirement being resolved.
C20_FileProcessedOncePerRequirement ==
    AtProcessFile =>
        <<ReqStr(cur.requirement), cur.files[cur.idx].filename>> \notin attempts

\* C20 witness: c-1.tar.gz was processed for the requirement c and again for
\* the requirement c<2 of the same run
C20_Witness ==
    /\ <<"c", "c-1.tar.gz">> \in attempts
    /\ <<"c<2", "c-1.tar.gz">> \in attempts
    /\ run = 1

\* what C21 says is_requirement_relevant returns: no marker, or no
\* environment, or the marker holds for an environment whose `extra` is the
\* joined extras ("" when no extras are given)
RelevantAsClaimed(requirement, envs_, joined) ==
    \/ requirement.marker = NoMarker
    \/ Len(envs_) = 0
    \/ \E i \in 1..Len(envs_) : MarkerEvaluate(requirement.marker, WithExtra(envs_[i], joined))

\* C21 (as claimed): is_requirement_relevant returns True for a requirement without marker,
\* True for no environments, and otherwise True exactly when the marker holds
\* for at least one environment with extra bound to the joined extras;
\* filter_relevant_requirements returns exactly the requirements for which
\* that predicate is True.
C21_RelevantIffSomeEnvironment ==
    /\ (call.op = "is_requirement_relevant" /\ call.calls = 1) =>
           (call.result <=> RelevantAsClaimed(call.requirement, call.envs, call.joined))
    /\ (call.op = "filter_relevant_requirements" /\ call.calls = 1) =>
           call.result = {req \in call.requirements :
                              RelevantAsClaimed(req, call.envs, call.joined)}

\* a canonical name: lower case, `-` the only separator, never two in a row
Canonical(cs) ==
    /\ \A i \in 1..Len(cs) : cs[i] \notin {"_", "."} /\ Lower(cs[i]) = cs[i]
    /\ \A i \in 1..(Len(cs) - 1) : ~ (cs[i] = "-" /\ cs[i + 1] = "-")

\* C22: canonicalization lower-cases and folds every run of `-`, `_`, `.` to one
\* `-`; canonicalizing a canonical name changes nothing; Requests_HTTP and
\* requests.http both give requests-http; the directory the mirror stores a
\* project in has the name normalize() of the server gives for the same input.
C22_CanonicalizationIdempotent ==
    call.op = "canonicalize" =>
        /\ call.calls >= 1 =>
               /\ Canonical(call.result)
               /\ Len(call.name) = 13 => Join(call.result) = "requests-http"
        /\ call.calls >= 2 => call.again = call.result
        /\ call.calls >= 3 => call.project = call.directory

\* C22 witness: the name r_.H went through both canonicalizations and through
\* normalize, and the directory is r-h
C22_Witness ==
    /\ call.op = "canonicalize" /\ call.calls = 3
    /\ call.name = << "r", "_", ".", "H" >>
    /\ call.directory = << "r", "-", "h" >>

\* the wave being iterated still has requirements to resolve, or one of them is
\* being resolved
WaveUndrained ==
    \/ pc = "wave" /\ depIdx <= Len(deps)
    \/ pc = "files" /\ cur.required_by # NoRequirement

\* the history of a requirement string changes: it is handed to _mirror for the
\* first time, or its resolution goes on or ends
Touched(s) == status'[s] # status[s] \/ (s \in submitted' /\ s \notin submitted)

RECURSIVE UnlabeledLen(_)
UnlabeledLen(lines) ==
    IF lines = << >> \/ Head(lines).kind = "section" THEN 0 ELSE 1 + UnlabeledLen(Tail(lines))

\* a manifest every line of which is a requirement or a section heading
WellFormed(lines) == \A i \in 1..Len(lines) : lines[i].valid

\* the positions of the lines under the section heading at position i
SectionBody(lines, i) ==
    {j \in (i + 1)..Len(lines) : \A k \in (i + 1)..j : lines[k].kind = "req"}

\* C24 (as claimed): for a well-formed manifest, the requirement lines before
\* any section are in the core dependencies for requires.txt and in the build
\* dependencies for setup_requires.txt, in both cases they are in the result of
\* dependencies(), and the lines of each section are in the optional group keyed
\* by the section label.
C24_UnlabeledLinesCoreOrBuild ==
    (call.op = "parse_requirestxt" /\ call.calls >= 1 /\ WellFormed(call.lines)) =>
        LET unlabeled == {call.lines[i].dep : i \in 1..UnlabeledLen(call.lines)}
        IN  /\ call.fpname = "requires.txt" => unlabeled \subseteq call.md.core_dependencies
            /\ call.fpname = "setup_requires.txt" =>
                   unlabeled \subseteq call.md.build_dependencies
            /\ call.calls = 2 => unlabeled \subseteq call.result
            /\ \A i \in 1..Len(call.lines) :
                   call.lines[i].kind = "section" =>
                       \E g \in call.md.optional_dependencies :
                           /\ g.key = call.lines[i].key
                           /\ \A j \in SectionBody(call.lines, i) : call.lines[j].dep \in g.deps

\* what a parser record has gathered is contained in what another has
Keeps(after, before) ==
    /\ before.core_dependencies \subseteq after.core_dependencies
    /\ before.build_dependencies \subseteq after.build_dependencies
    /\ \A g \in before.optional_dependencies :
           \E h \in after.optional_dependencies : h.key = g.key /\ g.deps \subseteq h.deps
    /\ before.seen_metadata_file => after.seen_metadata_file

\* C25: a member whose parsing fails does not end the extraction. No call is
\* left by an exception; a call that has not returned is in its loop or about to
\* return; every step of the loop, failing or not, keeps what was gathered
\* before; when the call has returned, every member was handed to the parser its
\* name selects, and the .metadata file was written if and only if one of the
\* members is the main metadata file, whether its parsing failed or not.
C25_ParseFailureContained ==
    call.op = "extract_metadata" =>
        /\ ~ call.raised
        /\ ~ call.returned => call.idx <= Len(call.members) + 1
        /\ \A i \in 1..Len(call.tried) :
               call.tried[i] = ParseFunc(call.ext, call.members[i].path)
        /\ call.idx <= Len(call.members) =>
               Keeps(parse(call.md, call.ext, call.members[call.idx]).md, call.md)
        /\ call.returned =>
               /\ Len(call.tried) = Len(call.members)
               /\ call.md_sidecar <=>
                      \E i \in 1..Len(call.members) :
                          ParseFunc(call.ext, call.members[i].path) = "_parse_metadata_file"

\* C25 witness: in a .tar.gz the PKG-INFO with an invalid Metadata-Version
\* failed first, requires.txt was parsed after it, the call returned with the
\* dependency numpy and wrote the .metadata file
C25_Witness ==
    /\ call.op = "extract_metadata" /\ call.returned
    /\ call.ext = "tar.gz"
    /\ Len(call.members) = 2
    /\ call.failed = {1}
    /\ call.members[1].version = "bad"
    /\ call.tried = << "_parse_metadata_file", "_parse_requirestxt" >>
    /\ Dep("numpy", ">=2", NoMarker) \in call.md.core_dependencies
    /\ call.md_sidecar

\* the priority of an option of an Accept header: its q value, 0 without one
PriorityOf(option) == IF option.params = "q" THEN option.q ELSE 0

\* the options of a header whose MIME type the server supports
SupportedOptions(header) == {i \in 1..Len(header) : header[i].mime \in SupportedTypes}

\* C26 (as claimed): parse_accept_header returns the PyPI HTML type for an empty
\* header; else, when the header lists supported MIME types, one of them whose
\* priority is the highest among those; else the PyPI HTML type when */* is
\* listed; else None, and do_GET then answers 406 and serves nothing.
C26_AcceptHeaderSelection ==
    (call.op \in {"parse_accept_header", "do_GET"} /\ call.calls = 1) =>
        LET header == call.header
            S == SupportedOptions(header)
        IN  /\ IF header = << >> THEN call.ct = PYPI_HTML_TYPE_V1
               ELSE IF S # {}
               THEN \E i \in S : /\ call.ct = header[i].mime
                                 /\ \A j \in S : PriorityOf(header[j]) <= PriorityOf(header[i])
               ELSE IF \E i \in 1..Len(header) : header[i].mime = "*/*"
               THEN call.ct = PYPI_HTML_TYPE_V1
               ELSE call.ct = NoType
            /\ call.op = "do_GET" =>
                   IF call.ct = NoType
                   THEN call.status = 406 /\ call.served = "none"
                   ELSE call.status # 406

\* _process_file is about to call _download_file for the file at cur.idx
AtDownload ==
    /\ pc = "files"
    /\ cur.idx <= Len(cur.files)
    /\ PREFERRED_HASH_ALG \in cur.files[cur.idx].hashes

\* C27: in every run on the index path, _download_file returns only when the
\* bytes stored at the target hash to the advertised digest; a target holding
\* other bytes is fetched again; and neither the decision to skip nor the
\* outcome depends on what the .hash sidecar holds.
C27_SuccessOnlyWhenVerified ==
    /\ [](AtDownload =>
            LET file == cur.files[cur.idx]
                fn == file.filename
            IN  \A outcome \in FetchOutcomes :
                    LET dl == download_file(file, disk[fn], sidecar[fn],
                                            PREFERRED_HASH_ALG, outcome)
                    IN  /\ ~ dl.raised =>
                               hexdigest(PREFERRED_HASH_ALG, dl.contents)
                                   = exphash(file, PREFERRED_HASH_ALG)
                        /\ disk[fn] # GoodBytes => dl.fetched
                        /\ \A side \in Sidecars :
                               LET other == download_file(file, disk[fn], side,
                                                          PREFERRED_HASH_ALG, outcome)
                               IN  /\ other.raised = dl.raised
                                   /\ other.fetched = dl.fetched
                                   /\ other.contents = dl.contents)
    /\ [][ AtDownload =>
               LET fn == cur.files[cur.idx].filename
               IN  /\ fn \notin cur'.failed => disk'[fn] = GoodBytes
                   /\ disk[fn] # GoodBytes => io'.fetch ]_vars

\* C27 witness: the second run is about to call _download_file for a file that
\* a digest mismatch of the first run left corrupt on disk, with its sidecar
C27_Witness ==
    /\ run = 2
    /\ AtDownload
    /\ disk[cur.files[cur.idx].filename] = CorruptBytes
    /\ sidecar[cur.files[cur.idx].filename] # NoSidecar

\* C28 (as claimed): a .hash sidecar that exists records the digest of the bytes
\* currently stored at its target, after every call of _download_file whatever
\* its outcome.
C28_SidecarDescribesStoredBytes ==
    \A fn \in FileNames :
        sidecar[fn] # NoSidecar =>
            /\ disk[fn] # Absent
            /\ sidecar[fn] = hash_file(disk[fn], PREFERRED_HASH_ALG).sidecar

\* C29 (as claimed): within a run the processed set only grows, across the
\* top-level mirror() calls as well, and a catalog query is made only for a
\* requirement string that was not queried before in the run, whatever the
\* earlier resolution of that string ended in.
C29_NoDuplicateCatalogWork ==
    [][ /\ processed \subseteq processed'
        /\ (AtCall /\ io'.response # NoResponse) =>
               status[ReqStr(CalledRequirement)] = "unvisited" ]_vars

\* C30 (as claimed): when dependencies() is called with several extras, then for
\* each requested extra x every dependency the core metadata files under x (its
\* marker tests extra == "x" and has no other condition that fails for all
\* environments) is in the result; a second extra removes no dependency of the
\* first.
C30_EveryRequestedExtraContributes ==
    (call.op = "dependencies" /\ call.calls >= 1 /\ Cardinality(call.extras) >= 2) =>
        \A x \in call.extras :
            \A g \in call.md.optional_dependencies :
                (g.key = Key(x, NoMarker)) =>
                    \A dep \in g.deps :
                        (dep.marker = Marker("extra", "==", x)) => dep \in call.result

====
